---- MODULE Spec2Model ----
(***************************************************************************)
(* SyntaxShift: a source-to-source translator between three surface        *)
(* languages ("python", "java", "cpp").  The module models the lexers, the *)
(* symbol table, the type checker, the translate / convert_code drivers    *)
(* and the python round trip, each as its own specification over the       *)
(* variables below.  Text is a sequence of one-character strings.          *)
(***************************************************************************)
EXTENDS Integers, Sequences, FiniteSets, TLC

VARIABLES
    language,      \* BaseLexer subclass in use: "python", "java" or "cpp"
    lx,            \* the lexer object: source_code, pos, line, column, tokens, ...
    symtab,        \* SymbolTable: scopes, current_scope
    calls,         \* SymbolTable: the caller's view of the calls made so far
    request,       \* translate / convert_code: entry point and its arguments
    pc,            \* translate / convert_code: the statement the call is at
    ran,           \* translate / convert_code: the stages run so far, in order
    response,      \* translate / convert_code: what the call returned
    compat,        \* is_type_compatible: its two arguments and its result
    checker,       \* TypeChecker.check: the checker, the AST and the walk's position
    trip,          \* python to python translation: the texts and ASTs of two passes
    emitter,       \* lowering and emission of one AST for one target language
    parsing        \* one parser over one token list, and what its call yielded

LexVars == <<language, lx>>
SymVars == <<symtab, calls>>
RunVars == <<request, pc, ran, response>>
PipeVars == <<trip, emitter, parsing>>
vars == <<LexVars, SymVars, RunVars, compat, checker, PipeVars>>

None == "None"

(***************************************************************************)
(* Bounds of the model.                                                    *)
(***************************************************************************)
MaxSrcLen == 3      \* longest free-form source text
MaxLines == 3       \* most lines of an indentation-shaped source text
MaxIndent == 2      \* widest run of leading spaces of such a line

(***************************************************************************)
(* Sequences helpers.                                                      *)
(***************************************************************************)
SeqsUpTo(S, n) == UNION {[1..k -> S] : k \in 0..n}

RECURSIVE Concat(_)
Concat(ss) == IF ss = <<>> THEN <<>> ELSE Head(ss) \o Concat(Tail(ss))

Last(s) == s[Len(s)]
Front(s) == SubSeq(s, 1, Len(s) - 1)

(***************************************************************************)
(* token.py                                                                *)
(***************************************************************************)
Token(type, value, line, column) ==
    [type |-> type, value |-> value, line |-> line, column |-> column]

Letters == {"a", "b", "c", "d", "e", "f", "g", "h", "i", "j", "k", "l", "m", "n",
            "o", "p", "q", "r", "s", "t", "u", "v", "w", "x", "y", "z", "_",
            "F", "N", "T"}
Digits == {"0", "1", "2"}

PYTHON_KEYWORDS ==
    { <<"a","n","d">>, <<"d","e","f">>, <<"e","l","i","f">>, <<"e","l","s","e">>,
      <<"f","o","r">>, <<"i","f">>, <<"i","n">>, <<"n","o","t">>, <<"o","r">>,
      <<"p","a","s","s">>, <<"r","e","t","u","r","n">>, <<"w","h","i","l","e">>,
      <<"b","r","e","a","k">>, <<"c","l","a","s","s">>,
      <<"T","r","u","e">>, <<"F","a","l","s","e">>, <<"N","o","n","e">> }
JAVA_KEYWORDS ==
    { <<"e","l","s","e">>, <<"f","o","r">>, <<"i","f">>, <<"i","n","t">>,
      <<"r","e","t","u","r","n">>, <<"w","h","i","l","e">>, <<"b","r","e","a","k">>,
      <<"c","l","a","s","s">>, <<"t","r","u","e">>, <<"f","a","l","s","e">>,
      <<"n","u","l","l">> }
CPP_KEYWORDS ==
    { <<"e","l","s","e">>, <<"f","o","r">>, <<"i","f">>, <<"i","n","t">>,
      <<"r","e","t","u","r","n">>, <<"w","h","i","l","e">>, <<"b","r","e","a","k">>,
      <<"c","l","a","s","s">>, <<"t","r","u","e">>, <<"f","a","l","s","e">>,
      <<"b","o","o","l">> }

(***************************************************************************)
(* base_lexer.py: the cursor and the shared readers.  A lexer is a record; *)
(* status is "running" while tokenize is in its loop, "returned" once it   *)
(* has returned its tokens and "raised" when an exception left it.         *)
(***************************************************************************)
NewLexer(source_code) ==
    [source_code |-> source_code, pos |-> 0, line |-> 1, column |-> 1,
     tokens |-> <<>>, indent_stack |-> <<0>>, at_line_start |-> TRUE,
     status |-> "running", error |-> None]

current_char(l) ==
    IF l.pos < Len(l.source_code) THEN l.source_code[l.pos + 1] ELSE None

peek(l, offset) ==
    IF l.pos + offset < Len(l.source_code)
    THEN l.source_code[l.pos + offset + 1] ELSE None

advance(l) ==
    [l EXCEPT !.pos = @ + 1,
              !.column = IF l.pos + 1 < Len(l.source_code) THEN @ + 1 ELSE @]

is_digit(c) == c \in Digits
is_alpha(c) == c \in Letters
is_alnum(c) == c \in Letters \cup Digits

Raise(l, what) == [l EXCEPT !.status = "raised", !.error = what]
AddToken(l, t) == [l EXCEPT !.tokens = Append(@, t)]

RECURSIVE skip_whitespace(_)
skip_whitespace(l) ==
    IF current_char(l) # None /\ current_char(l) \in {" ", "\t", "\r"}
    THEN skip_whitespace(advance(l)) ELSE l

RECURSIVE skip_line(_)
skip_line(l) ==
    IF current_char(l) # None /\ current_char(l) # "\n"
    THEN skip_line(advance(l)) ELSE l

\* The loop of read_number: <<lexer, result, is_float>>.
RECURSIVE ReadNumberLoop(_, _, _)
ReadNumberLoop(l, result, is_float) ==
    LET c == current_char(l) IN
    IF c # None /\ (is_digit(c) \/ c = ".")
    THEN IF c = "." /\ is_float
         THEN <<l, result, is_float>>
         ELSE ReadNumberLoop(advance(l), Append(result, c), is_float \/ c = ".")
    ELSE <<l, result, is_float>>

read_number(l) ==
    LET r == ReadNumberLoop(l, <<>>, FALSE) IN
    AddToken(r[1], Token(IF r[3] THEN "FLOAT" ELSE "INTEGER", r[2], l.line, l.column))

Unescape(c) ==
    CASE c = "n" -> "\n"
      [] c = "t" -> "\t"
      [] c = "r" -> "\r"
      [] OTHER -> c

\* The loop of read_string: the lexer (raised on `result += None`) and result.
RECURSIVE ReadStringLoop(_, _, _)
ReadStringLoop(l, quote_char, result) ==
    LET c == current_char(l) IN
    IF c # None /\ c # quote_char
    THEN IF c = "\\"
         THEN LET e == current_char(advance(l)) IN
              IF e = None
              THEN <<Raise(advance(l), "TypeError"), result>>
              ELSE ReadStringLoop(advance(advance(l)), quote_char,
                                  Append(result, Unescape(e)))
         ELSE ReadStringLoop(advance(l), quote_char, Append(result, c))
    ELSE <<l, result>>

read_string(l, quote_char) ==
    LET r == ReadStringLoop(advance(l), quote_char, <<>>)
        m == r[1] IN
    IF m.status = "raised" THEN m
    ELSE AddToken(IF current_char(m) = quote_char THEN advance(m) ELSE m,
                  Token("STRING", r[2], l.line, l.column))

RECURSIVE ReadIdentifierLoop(_, _)
ReadIdentifierLoop(l, result) ==
    LET c == current_char(l) IN
    IF c # None /\ is_alnum(c)
    THEN ReadIdentifierLoop(advance(l), Append(result, c))
    ELSE <<l, result>>

read_identifier(l, keywords) ==
    LET r == ReadIdentifierLoop(l, <<>>) IN
    AddToken(r[1], Token(IF r[2] \in keywords THEN "KEYWORD" ELSE "IDENTIFIER",
                         r[2], l.line, l.column))

make_token(l, type, value) == Token(type, value, l.line, l.column - Len(value))

(***************************************************************************)
(* The operator tables of the three tokenize loops.                        *)
(***************************************************************************)
TwoCharOperators(lang) ==
    CASE lang = "python" ->
           { <<"=", "=", "EQUAL">>, <<"!", "=", "NOT_EQUAL">>, <<"<", "=", "LESS_EQUAL">>,
             <<">", "=", "GREATER_EQUAL">>, <<"*", "*", "POWER">>,
             <<"/", "/", "FLOOR_DIVIDE">>, <<"+", "=", "PLUS_ASSIGN">>,
             <<"-", "=", "MINUS_ASSIGN">>, <<"-", ">", "ARROW">> }
      [] lang = "java" ->
           { <<"&", "&", "AND">>, <<"|", "|", "OR">>, <<"=", "=", "EQUAL">>,
             <<"!", "=", "NOT_EQUAL">>, <<"<", "=", "LESS_EQUAL">>,
             <<">", "=", "GREATER_EQUAL">>, <<"+", "=", "PLUS_ASSIGN">>,
             <<"+", "+", "INCREMENT">>, <<"-", "=", "MINUS_ASSIGN">>,
             <<"-", "-", "DECREMENT">>, <<"<", "<", "LSHIFT">>, <<">", ">", "RSHIFT">> }
      [] OTHER ->
           { <<":", ":", "DOUBLE_COLON">>, <<"&", "&", "AND">>, <<"|", "|", "OR">>,
             <<"=", "=", "EQUAL">>, <<"!", "=", "NOT_EQUAL">>, <<"<", "=", "LESS_EQUAL">>,
             <<">", "=", "GREATER_EQUAL">>, <<"-", ">", "ARROW">>,
             <<"+", "=", "PLUS_ASSIGN">>, <<"-", "=", "MINUS_ASSIGN">>,
             <<"<", "<", "IDENTIFIER">>, <<">", ">", "IDENTIFIER">> }

single_char_tokens(lang) ==
    { <<"+", "PLUS">>, <<"-", "MINUS">>, <<"*", "MULTIPLY">>, <<"/", "DIVIDE">>,
      <<"%", "MODULO">>, <<"=", "ASSIGN">>, <<"<", "LESS_THAN">>,
      <<">", "GREATER_THAN">>, <<"(", "LPAREN">>, <<")", "RPAREN">>,
      <<"{", "LBRACE">>, <<"}", "RBRACE">>, <<"[", "LBRACKET">>, <<"]", "RBRACKET">>,
      <<",", "COMMA">>, <<";", "SEMICOLON">>, <<":", "COLON">>, <<".", "DOT">> }
    \cup (IF lang = "python" THEN {} ELSE { <<"!", "NOT">> })
    \cup (IF lang = "cpp" THEN { <<"&", "IDENTIFIER">> } ELSE {})

\* The operator part shared by the three tokenize loops: a two-character
\* operator, else a single-character one, else the unknown character is skipped.
Operators(l, lang) ==
    LET c == current_char(l)
        two == {t \in TwoCharOperators(lang) : t[1] = c /\ t[2] = peek(l, 1)}
        one == {t \in single_char_tokens(lang) : t[1] = c} IN
    IF two # {}
    THEN LET t == CHOOSE t \in two : TRUE IN
         advance(advance(AddToken(l, make_token(l, t[3], <<t[1], t[2]>>))))
    ELSE IF one # {}
    THEN LET t == CHOOSE t \in one : TRUE IN
         advance(AddToken(l, make_token(l, t[2], <<c>>)))
    ELSE advance(l)

(***************************************************************************)
(* python_lexer.py                                                         *)
(***************************************************************************)
RECURSIVE skip_whitespace_inline(_)
skip_whitespace_inline(l) ==
    IF current_char(l) # None /\ current_char(l) \in {" ", "\t"}
    THEN skip_whitespace_inline(advance(l)) ELSE l

\* The counting loop of handle_indentation: <<lexer, indent_level>>.
RECURSIVE CountIndent(_, _)
CountIndent(l, indent_level) ==
    LET c == current_char(l) IN
    IF c # None /\ c \in {" ", "\t"}
    THEN CountIndent(advance(l), indent_level + (IF c = " " THEN 1 ELSE 4))
    ELSE <<l, indent_level>>

\* PopIndents emitting one DEDENT for the line, however many levels it pops.
RECURSIVE PopIndents_OneDedent(_, _)
PopIndents_OneDedent(l, indent_level) ==
    IF l.indent_stack # <<>> /\ Last(l.indent_stack) > indent_level
    THEN LET m == PopIndents_OneDedent([l EXCEPT !.indent_stack = Front(@)], indent_level) IN
         IF m.tokens = l.tokens
         THEN AddToken(m, Token("DEDENT", indent_level, l.line, 1)) ELSE m
    ELSE l

\* The popping loop of handle_indentation.
RECURSIVE PopIndents(_, _)
PopIndents(l, indent_level) ==
    IF l.indent_stack # <<>> /\ Last(l.indent_stack) > indent_level
    THEN PopIndents(
           AddToken([l EXCEPT !.indent_stack = Front(@)],
                    Token("DEDENT", indent_level, l.line, 1)),
           indent_level)
    ELSE l

handle_indentation(l) ==
    LET r == CountIndent(l, 0)
        m == r[1]
        indent_level == r[2]
        current_indent == Last(m.indent_stack) IN
    IF indent_level > current_indent
    THEN AddToken([m EXCEPT !.indent_stack = Append(@, indent_level)],
                  Token("INDENT", indent_level, m.line, 1))
    ELSE IF indent_level < current_indent
    THEN PopIndents(m, indent_level)
    ELSE m

\* The expression loop of an f-string: <<lexer, expr>>.
RECURSIVE FStringExpr(_, _, _)
FStringExpr(l, expr, brace_depth) ==
    LET c == current_char(l) IN
    IF c # None /\ brace_depth > 0
    THEN IF c = "}" /\ brace_depth = 1
         THEN <<l, expr>>
         ELSE FStringExpr(advance(l), Append(expr, c),
                          CASE c = "{" -> brace_depth + 1
                            [] c = "}" -> brace_depth - 1
                            [] OTHER -> brace_depth)
    ELSE <<l, expr>>

\* The content loop of an f-string: <<lexer, parts, current_part>>.
RECURSIVE FStringLoop(_, _, _, _)
FStringLoop(l, quote, parts, current_part) ==
    LET c == current_char(l) IN
    IF c # None /\ c # quote
    THEN CASE c = "\\" ->
                LET m == advance(l) IN
                IF current_char(m) # None
                THEN FStringLoop(advance(m), quote, parts,
                                 Append(current_part, current_char(m)))
                ELSE FStringLoop(m, quote, parts, current_part)
           [] c = "{" /\ peek(l, 1) = "{" ->
                FStringLoop(advance(advance(l)), quote, parts, Append(current_part, "{"))
           [] c = "{" /\ peek(l, 1) # "{" ->
                LET p1 == IF current_part # <<>>
                          THEN Append(parts, <<"string", current_part>>) ELSE parts
                    r == FStringExpr(advance(l), <<>>, 1)
                    p2 == IF r[2] # <<>> THEN Append(p1, <<"expr", r[2]>>) ELSE p1 IN
                FStringLoop(advance(r[1]), quote, p2, <<>>)
           [] c = "}" /\ peek(l, 1) = "}" ->
                FStringLoop(advance(advance(l)), quote, parts, Append(current_part, "}"))
           [] OTHER ->
                FStringLoop(advance(l), quote, parts, Append(current_part, c))
    ELSE <<l, parts, current_part>>

ReadFString(l) ==
    LET quote == current_char(advance(l))
        r == FStringLoop(advance(advance(l)), quote, <<>>, <<>>)
        parts == IF r[3] # <<>> THEN Append(r[2], <<"string", r[3]>>) ELSE r[2]
        m == advance(r[1]) IN
    AddToken(m, Token("F_STRING", parts, m.line, m.column))

\* The loop of a triple-quoted string: <<lexer, string_val>>.
RECURSIVE TripleLoop(_, _, _)
TripleLoop(l, quote, string_val) ==
    LET c == current_char(l) IN
    IF c # None
    THEN IF c = quote /\ peek(l, 1) = quote /\ peek(l, 2) = quote
         THEN <<advance(advance(advance(l))), string_val>>
         ELSE TripleLoop(advance(l), quote, Append(string_val, c))
    ELSE <<l, string_val>>

ReadTripleString(l) ==
    LET r == TripleLoop(advance(advance(advance(l))), current_char(l), <<>>) IN
    AddToken(r[1], Token("STRING", r[2], r[1].line, r[1].column))

\* One pass of the while loop of PythonLexer.tokenize from `Skip whitespace`
\* on (lines 82-289); current_char is not None here.
PythonDispatch(l) ==
    LET c == current_char(l)
        m == [l EXCEPT !.at_line_start = FALSE] IN
    CASE c \in {" ", "\t"} -> skip_whitespace_inline(l)
      [] c = "\n" ->
           [advance(AddToken(l, make_token(l, "NEWLINE", <<"\n">>)))
              EXCEPT !.at_line_start = TRUE]
      [] c = "#" -> skip_line(m)
      [] is_digit(c) -> read_number(m)
      [] c \in {"f", "F"} /\ peek(l, 1) \in {"\"", "'"} -> ReadFString(m)
      [] c \in {"\"", "'"} /\ ~(peek(l, 1) = c /\ peek(l, 2) = c) -> read_string(m, c)
      [] c \in {"\"", "'"} /\ peek(l, 1) = c /\ peek(l, 2) = c -> ReadTripleString(m)
      [] is_alpha(c) /\ ~(c \in {"f", "F"} /\ peek(l, 1) \in {"\"", "'"}) ->
           read_identifier(m, PYTHON_KEYWORDS)
      [] OTHER -> Operators(m, "python")

\* One pass of the while loop of PythonLexer.tokenize (lines 68-289).
PythonIteration(l) ==
    IF l.at_line_start /\ current_char(l) \notin {"\n", "#"}
    THEN LET m == [handle_indentation(l) EXCEPT !.at_line_start = FALSE] IN
         IF current_char(m) = None
         THEN Raise(m, "TypeError")        \* `None in ' \t'`, line 79
         ELSE IF current_char(m) \in {" ", "\t"} THEN m
         ELSE PythonDispatch(m)
    ELSE PythonDispatch(l)

\* The popping loop after the while loop of PythonLexer.tokenize.
RECURSIVE RemainingDedents(_)
RemainingDedents(l) ==
    IF Len(l.indent_stack) > 1
    THEN RemainingDedents(AddToken([l EXCEPT !.indent_stack = Front(@)],
                                   Token("DEDENT", 0, l.line, l.column)))
    ELSE l

AddEOF(l) ==
    [AddToken(l, Token("EOF", None, l.line, l.column)) EXCEPT !.status = "returned"]

PythonFinish(l) == AddEOF(RemainingDedents(l))

(***************************************************************************)
(* java_lexer.py and cpp_lexer.py                                          *)
(***************************************************************************)
RECURSIVE CommentLoop(_)
CommentLoop(l) ==
    IF current_char(l) # None
    THEN IF current_char(l) = "*" /\ peek(l, 1) = "/"
         THEN advance(advance(l))
         ELSE CommentLoop(advance(l))
    ELSE l

skip_multiline_comment(l) == CommentLoop(advance(advance(l)))

\* The two loops of handle_preprocessor: <<lexer, directive>>.
RECURSIVE DirectiveName(_, _)
DirectiveName(l, directive) ==
    IF current_char(l) # None /\ is_alpha(current_char(l))
    THEN DirectiveName(advance(l), Append(directive, current_char(l)))
    ELSE <<l, directive>>

handle_preprocessor(l) ==
    LET r == DirectiveName(advance(l), <<>>) IN
    AddToken(skip_line(r[1]), Token("KEYWORD", <<"#">> \o r[2], l.line, l.column))

\* One pass of the while loop of JavaLexer.tokenize / CppLexer.tokenize.
BraceIteration(l, lang) ==
    LET c == current_char(l) IN
    CASE c \in {" ", "\t", "\n", "\r"} ->
           LET m == skip_whitespace(l) IN
           IF current_char(m) = "\n" THEN advance(m) ELSE m
      [] c = "#" /\ lang = "cpp" -> handle_preprocessor(l)
      [] c = "/" /\ peek(l, 1) = "/" -> skip_line(l)
      [] c = "/" /\ peek(l, 1) = "*" -> skip_multiline_comment(l)
      [] is_digit(c) -> read_number(l)
      [] c \in {"\"", "'"} -> read_string(l, c)
      [] is_alpha(c) ->
           read_identifier(l, IF lang = "java" THEN JAVA_KEYWORDS ELSE CPP_KEYWORDS)
      [] OTHER -> Operators(l, lang)

Iteration(l, lang) ==
    IF lang = "python" THEN PythonIteration(l) ELSE BraceIteration(l, lang)

Finish(l, lang) ==
    IF lang = "python" THEN PythonFinish(l) ELSE AddEOF(l)

\* tokenize, run to its end: the lexer as tokenize leaves it.
RECURSIVE tokenize(_, _)
tokenize(l, lang) ==
    IF l.status # "running" THEN l
    ELSE IF current_char(l) = None THEN Finish(l, lang)
    ELSE tokenize(Iteration(l, lang), lang)

(***************************************************************************)
(* symbol_table.py.  A scope's parent is its index in scopes (0: no        *)
(* parent); symbols maps the names defined in the scope to their Symbol.   *)
(***************************************************************************)
Symbol(name, kind, symbol_type) ==
    [name |-> name, kind |-> kind, symbol_type |-> symbol_type,
     parameters |-> <<>>, return_type |-> None]

\* None where a Symbol is expected.
NoSymbol == [kind |-> None]

Scope(name, parent) == [name |-> name, parent |-> parent, symbols |-> <<>>]

NewSymbolTable ==
    [scopes |-> <<Scope("global", 0)>>, current_scope |-> 1, global_scope |-> 1]

ScopeDefine(scope, symbol) ==
    [scope EXCEPT !.symbols =
        [n \in DOMAIN scope.symbols \cup {symbol.name} |->
            IF n = symbol.name THEN symbol ELSE scope.symbols[n]]]

RECURSIVE ScopeLookup(_, _, _, _)
ScopeLookup(st, scope, name, current_only) ==
    IF name \in DOMAIN st.scopes[scope].symbols
    THEN st.scopes[scope].symbols[name]
    ELSE IF ~current_only /\ st.scopes[scope].parent # 0
    THEN ScopeLookup(st, st.scopes[scope].parent, name, FALSE)
    ELSE NoSymbol

\* exit_scope that leaves current_scope where it is.
exit_scope_Stays(st) == st

enter_scope(st, name) ==
    [st EXCEPT !.scopes = Append(@, Scope(name, st.current_scope)),
               !.current_scope = Len(st.scopes) + 1]

exit_scope(st) ==
    IF st.scopes[st.current_scope].parent # 0
    THEN [st EXCEPT !.current_scope = st.scopes[st.current_scope].parent]
    ELSE st

define(st, symbol) ==
    [st EXCEPT !.scopes[st.current_scope] = ScopeDefine(@, symbol)]

lookup(st, name, current_only) == ScopeLookup(st, st.current_scope, name, current_only)

is_defined(st, name, current_only) == lookup(st, name, current_only) # NoSymbol

\* get_all_symbols: the symbols of all scopes, each as <<scope, name>>.
get_all_symbols(st) ==
    UNION {{<<i, n>> : n \in DOMAIN st.scopes[i].symbols} : i \in 1..Len(st.scopes)}

(***************************************************************************)
(* The lexer specification: a lexer is constructed on a source text and    *)
(* tokenize runs, one pass of its while loop per step.                     *)
(***************************************************************************)
Alphabet == {" ", "\n", "x", "1", "\"", "\\", "#", "/", "*", "=", "@"}
FreeTexts == SeqsUpTo(Alphabet, MaxSrcLen)

\* Interpolated strings: f" followed by a short body.
FStringTexts ==
    {<<"f", "\"">> \o body : body \in SeqsUpTo({"x", "{", "}", "\\", "\""}, MaxSrcLen)}

\* Lines of leading spaces (or one tab) and a name, a comment or nothing.
Spaces(n) == [i \in 1..n |-> " "]
LineShapes ==
    {prefix \o body \o <<"\n">> :
        prefix \in {Spaces(n) : n \in 0..MaxIndent} \cup {<<"\t">>},
        body \in {<<"x">>, <<"#">>, <<>>}}
IndentedTexts == {Concat(ls) : ls \in SeqsUpTo(LineShapes, MaxLines)}

Languages == {"python", "java", "cpp"}

SymIdle == symtab = None /\ calls = None
LexIdle == language = None /\ lx = None
RunIdle == request = None /\ pc = None /\ ran = None /\ response = None
CompatIdle == compat = None
CheckerIdle == checker = None
TripIdle == trip = None
EmitterIdle == emitter = None
ParsingIdle == parsing = None
PipeIdle == TripIdle /\ EmitterIdle /\ ParsingIdle
OthersIdle == CheckerIdle /\ PipeIdle

LexInit ==
    /\ language \in Languages
    /\ lx \in {NewLexer(t) : t \in FreeTexts \cup FStringTexts}
             \cup (IF language = "python"
                   THEN {NewLexer(t) : t \in IndentedTexts} ELSE {})
    /\ SymIdle /\ RunIdle /\ CompatIdle /\ OthersIdle

PythonStep ==
    /\ language = "python" /\ lx.status = "running" /\ current_char(lx) # None
    /\ lx' = PythonIteration(lx)
    /\ UNCHANGED <<language, SymVars, RunVars, compat, checker, PipeVars>>

JavaStep ==
    /\ language = "java" /\ lx.status = "running" /\ current_char(lx) # None
    /\ lx' = BraceIteration(lx, "java")
    /\ UNCHANGED <<language, SymVars, RunVars, compat, checker, PipeVars>>

CppStep ==
    /\ language = "cpp" /\ lx.status = "running" /\ current_char(lx) # None
    /\ lx' = BraceIteration(lx, "cpp")
    /\ UNCHANGED <<language, SymVars, RunVars, compat, checker, PipeVars>>

TokenizeReturn ==
    /\ lx.status = "running" /\ current_char(lx) = None
    /\ lx' = Finish(lx, language)
    /\ UNCHANGED <<language, SymVars, RunVars, compat, checker, PipeVars>>

LexNext == PythonStep \/ JavaStep \/ CppStep \/ TokenizeReturn

SpecLexer == LexInit /\ [][LexNext]_vars

(***************************************************************************)
(* Claims about the lexers.                                                *)
(***************************************************************************)
CountType(tokens, type) == Cardinality({i \in 1..Len(tokens) : tokens[i].type = type})

\* C1: tokenize of each of the three lexers returns without raising on every
\* input, and the returned tokens hold exactly one EOF token, the last one.
\* Stated on the code: no run of tokenize ends in an exception.
C1_TokenizeTotal ==
    /\ lx.status # "raised"
    /\ lx.status = "returned" =>
         /\ CountType(lx.tokens, "EOF") = 1
         /\ Last(lx.tokens).type = "EOF"

\* C2: when PythonLexer.tokenize returns, it has emitted as many DEDENT tokens
\* as INDENT tokens and the indent stack is back to its bottom entry [0].
C2_IndentsBalanced ==
    (language = "python" /\ lx.status = "returned") =>
        /\ CountType(lx.tokens, "DEDENT") = CountType(lx.tokens, "INDENT")
        /\ lx.indent_stack = <<0>>

\* C2 witness: a returned python run that pushed and popped more than once,
\* one of the pops made by a line and not by the end of the input.
C2_Witness ==
    /\ language = "python" /\ lx.status = "returned"
    /\ CountType(lx.tokens, "INDENT") >= 2
    /\ \E i \in 1..Len(lx.tokens) :
          lx.tokens[i].type = "DEDENT" /\ lx.tokens[i + 1].type \notin {"DEDENT", "EOF"}

(***************************************************************************)
(* The symbol table specification: a caller makes any sequence of          *)
(* enter_scope, exit_scope and define calls on one SymbolTable.  calls is  *)
(* what the caller did: the stack of the scopes it has entered and not yet *)
(* exited, each with the names it defined while that scope was current.    *)
(***************************************************************************)
MaxScopes == 3      \* most scopes one symbol table is made to hold
Names == {"global_var", "local_var", "v"}

SymInit ==
    /\ symtab = NewSymbolTable
    /\ calls = <<{}>>
    /\ LexIdle /\ RunIdle /\ CompatIdle /\ OthersIdle

EnterScope ==
    /\ Len(symtab.scopes) < MaxScopes
    /\ symtab' = enter_scope(symtab, "function:test")
    /\ calls' = Append(calls, {})
    /\ UNCHANGED <<LexVars, RunVars, compat, checker, PipeVars>>

ExitScope ==
    /\ symtab' = exit_scope(symtab)
    /\ calls' = IF Len(calls) > 1 THEN Front(calls) ELSE calls
    /\ UNCHANGED <<LexVars, RunVars, compat, checker, PipeVars>>

Define ==
    \E n \in Names :
        /\ symtab' = define(symtab, Symbol(n, "variable", "int"))
        /\ calls' = [calls EXCEPT ![Len(calls)] = @ \cup {n}]
        /\ UNCHANGED <<LexVars, RunVars, compat, checker, PipeVars>>

SymNext == EnterScope \/ ExitScope \/ Define

SpecSymbolTable == SymInit /\ [][SymNext]_vars

\* C3: a symbol defined only in a child scope is returned by lookup while that
\* scope or a descendant of it is current and is not returned once exit_scope
\* has gone back to the parent; symbols of the enclosing scopes stay visible.
\* That is, lookup finds exactly the names defined in the scopes still open.
C3_ScopeVisibility ==
    \A n \in Names :
        (lookup(symtab, n, FALSE) # NoSymbol) <=> (\E i \in 1..Len(calls) : n \in calls[i])

\* C3 witness: back in the global scope after a child scope was exited, a name
\* defined only in that child is not found while a global one is.
C3_Witness ==
    /\ Len(calls) = 1 /\ Len(symtab.scopes) > 1
    /\ "global_var" \in calls[1]
    /\ "local_var" \in DOMAIN symtab.scopes[2].symbols
    /\ "local_var" \notin calls[1]
    /\ lookup(symtab, "local_var", FALSE) = NoSymbol

(***************************************************************************)
(* cli.py translate and app.py convert_code: the five stages in one try    *)
(* block.  What a stage does to its input is left open here: it returns or *)
(* raises, and check returns true or false.                                *)
(***************************************************************************)
lexer_map == {"python", "java", "cpp"}
parser_map == {"python", "java", "cpp"}
generator_map == {"python", "java", "cpp"}
Stages == <<"lex", "parse", "check", "lower", "emit">>

Failure(error) == [success |-> FALSE, error |-> error]
Success == [success |-> TRUE, error |-> None]
\* The call has not returned yet.
Pending == [success |-> FALSE, error |-> "pending"]

RunInit ==
    /\ request \in [entry : {"translate", "convert_code"},
                    source_lang : {"python", "java", "cpp", "ruby"},
                    target_lang : {"python", "java", "cpp", "ruby"}]
    /\ pc = "lexer" /\ ran = <<>> /\ response = Pending
    /\ LexIdle /\ SymIdle /\ CompatIdle /\ OthersIdle

Returns(next) == pc' = next /\ response' = response
Fails(error) == pc' = "done" /\ response' = Failure(error)

\* lexer_map[source_lang](code).tokenize(); convert_code tests the key first.
Lex ==
    /\ pc = "lexer"
    /\ \/ /\ request.source_lang \notin lexer_map
          /\ Fails(IF request.entry = "translate" THEN "KeyError" ELSE "HTTPException")
          /\ ran' = ran
       \/ /\ request.source_lang \in lexer_map
          /\ ran' = Append(ran, "lex")
          /\ Returns("parser") \/ Fails("TypeError")
    /\ UNCHANGED <<request, LexVars, SymVars, compat, checker, PipeVars>>

\* parser_map[source_lang](tokens).parse()
Parse ==
    /\ pc = "parser"
    /\ ran' = Append(ran, "parse")
    /\ Returns("checker") \/ Fails("ParseError")
    /\ UNCHANGED <<request, LexVars, SymVars, compat, checker, PipeVars>>

\* Check with the `return` under `if not is_valid` lost: the errors are
\* reported and the call goes on to the IR generator.
Check_NoReturn ==
    /\ pc = "checker"
    /\ ran' = Append(ran, "check")
    /\ Returns("ir_gen") \/ (pc' = "ir_gen" /\ response' = Failure("Semantic Errors"))
                         \/ Fails("Exception")
    /\ UNCHANGED <<request, LexVars, SymVars, compat, checker, PipeVars>>

\* TypeChecker(language=source_lang).check(ast) and the `if not is_valid` return
Check ==
    /\ pc = "checker"
    /\ ran' = Append(ran, "check")
    /\ Returns("ir_gen") \/ Fails("Semantic Errors") \/ Fails("Exception")
    /\ UNCHANGED <<request, LexVars, SymVars, compat, checker, PipeVars>>

\* IRGenerator(source_language=source_lang).generate(ast)
Lower ==
    /\ pc = "ir_gen"
    /\ ran' = Append(ran, "lower")
    /\ Returns("generator") \/ Fails("Exception")
    /\ UNCHANGED <<request, LexVars, SymVars, compat, checker, PipeVars>>

\* generator_map[target_lang]().generate(ir_program); convert_code tests the key first.
Emit ==
    /\ pc = "generator"
    /\ \/ /\ request.target_lang \notin generator_map
          /\ Fails(IF request.entry = "translate" THEN "KeyError" ELSE "HTTPException")
          /\ ran' = ran
       \/ /\ request.target_lang \in generator_map
          /\ ran' = Append(ran, "emit")
          /\ (pc' = "done" /\ response' = Success) \/ Fails("Exception")
    /\ UNCHANGED <<request, LexVars, SymVars, compat, checker, PipeVars>>

RunNext == Lex \/ Parse \/ Check \/ Lower \/ Emit

SpecTranslate == RunInit /\ [][RunNext]_vars

IsPrefix(s, t) == Len(s) <= Len(t) /\ \A i \in 1..Len(s) : s[i] = t[i]

\* C4: translate and convert_code run the stages strictly in the order lex,
\* parse, check, lower, emit; when parse raises none of check, lower, emit runs;
\* when check returns false neither lower nor emit runs and the call returns a
\* failure and no target code.
C4_StageOrder ==
    /\ IsPrefix(ran, Stages)
    /\ response.error = "ParseError" => ran = <<"lex", "parse">> /\ pc = "done"
    /\ response.error = "Semantic Errors" =>
           ran = <<"lex", "parse", "check">> /\ pc = "done" /\ ~response.success
    /\ response.success => ran = Stages /\ pc = "done"

\* C4 witness: a call that stopped at a check that returned false.
C4_Witness ==
    pc = "done" /\ response.error = "Semantic Errors" /\ ran = <<"lex", "parse", "check">>

\* C5: an unsupported source or target variant is reported before any stage
\* (lexer, parser, semantic check, IR generation) has run.
C5_ConfigErrorBeforePipeline ==
    (request.source_lang \notin lexer_map \/ request.target_lang \notin generator_map)
        => ran = <<>>

(***************************************************************************)
(* TypeChecker.is_type_compatible                                          *)
(***************************************************************************)
\* is_type_compatible without its two families: names must be equal.
is_type_compatible_Strict(expected, actual) == expected = actual

is_type_compatible(expected, actual) ==
    LET numeric_types == {"int", "float", "double", "long", "short"} IN
    \/ expected = actual
    \/ expected \in numeric_types /\ actual \in numeric_types
    \/ expected \in {"bool", "boolean"} /\ actual \in {"bool", "boolean"}

TypeNames == {"int", "float", "double", "long", "short", "bool", "boolean",
              "str", "String", "None", "function"}

CompatInit ==
    /\ compat \in [expected : TypeNames, actual : TypeNames,
                    returned : {FALSE}, result : {FALSE}]
    /\ LexIdle /\ SymIdle /\ RunIdle /\ OthersIdle

CompatCall ==
    /\ ~compat.returned
    /\ compat' = [compat EXCEPT !.returned = TRUE,
                                !.result = is_type_compatible(compat.expected, compat.actual)]
    /\ UNCHANGED <<LexVars, SymVars, RunVars, checker, PipeVars>>

CompatNext == CompatCall

SpecCompat == CompatInit /\ [][CompatNext]_vars

NumericKinds == {"int", "float", "double", "long", "short"}
BooleanKinds == {"bool", "boolean"}

\* C8: is_type_compatible(expected, actual) is true exactly when the names are
\* equal, or both are numeric kinds, or both are boolean spellings; (int, float)
\* is true, (bool, int) is false, (str, str) is true; the relation is symmetric.
C8_TypeLattice ==
    compat.returned =>
        /\ compat.result = TRUE <=>
              \/ compat.expected = compat.actual
              \/ {compat.expected, compat.actual} \subseteq NumericKinds
              \/ {compat.expected, compat.actual} \subseteq BooleanKinds
        /\ (compat.expected = "int" /\ compat.actual = "float") => compat.result = TRUE
        /\ (compat.expected = "bool" /\ compat.actual = "int") => compat.result = FALSE
        /\ (compat.expected = "str" /\ compat.actual = "str") => compat.result = TRUE
        /\ compat.result = is_type_compatible(compat.actual, compat.expected)

\* C8 witness: the call on (int, float) has returned true.
C8_Witness ==
    /\ compat.returned
    /\ compat.expected = "int" /\ compat.actual = "float" /\ compat.result = TRUE

(***************************************************************************)
(* AST nodes (parser/ast_nodes.py).  Every node is a record carrying its   *)
(* node_type; names and literal values are texts.                          *)
(***************************************************************************)
\* None where a node is expected.
NoNode == [node_type |-> None]

Program(statements) == [node_type |-> "Program", statements |-> statements]

FunctionDef(name, parameters, return_type, body) ==
    [node_type |-> "FunctionDef", name |-> name, parameters |-> parameters,
     return_type |-> return_type, body |-> body]

VariableDecl(name, var_type, initial_value) ==
    [node_type |-> "VariableDecl", name |-> name, var_type |-> var_type,
     initial_value |-> initial_value]

IfStatement(condition, then_block, elif_blocks, else_block) ==
    [node_type |-> "IfStatement", condition |-> condition, then_block |-> then_block,
     elif_blocks |-> elif_blocks, else_block |-> else_block]

WhileLoop(condition, body) ==
    [node_type |-> "WhileLoop", condition |-> condition, body |-> body]

ForLoop(variable, iterable, body) ==
    [node_type |-> "ForLoop", variable |-> variable, iterable |-> iterable, body |-> body]

Return(expression) == [node_type |-> "Return", expression |-> expression]

Assignment(target, value, operator) ==
    [node_type |-> "Assignment", target |-> target, value |-> value, operator |-> operator]

BinaryOp(left, operator, right) ==
    [node_type |-> "BinaryOp", left |-> left, operator |-> operator, right |-> right]

UnaryOp(operator, operand) ==
    [node_type |-> "UnaryOp", operator |-> operator, operand |-> operand]

FunctionCall(function_name, arguments) ==
    [node_type |-> "FunctionCall", function_name |-> function_name, arguments |-> arguments]

Identifier(name) == [node_type |-> "Identifier", name |-> name]

Literal(value, literal_type) ==
    [node_type |-> "Literal", value |-> value, literal_type |-> literal_type]

ExpressionStatement(expression) ==
    [node_type |-> "ExpressionStatement", expression |-> expression]

(***************************************************************************)
(* TypeChecker (semantic/type_checker.py).  A visitor takes the checker    *)
(* and a node and yields the checker after the visit with the type it      *)
(* returns; an error message is its text with the name it quotes.          *)
(***************************************************************************)
\* The type name 'None' (a str), as distinct from an absent type.
NoneName == "'None'"

TypeChecker(lang) ==
    [language |-> lang, symbol_table |-> NewSymbolTable, errors |-> <<>>,
     warnings |-> <<>>, current_function |-> NoSymbol]

error(c, message, name, detail) ==
    [c EXCEPT !.errors = Append(@, [message |-> message, name |-> name, detail |-> detail])]

warning(c, message, detail) ==
    [c EXCEPT !.warnings = Append(@, [message |-> message, detail |-> detail])]

Result(c, type) == [tc |-> c, type |-> type]

\* The names visit_functioncall treats as built in.
Builtins ==
    {<<"p", "r", "i", "n", "t">>, <<"p", "r", "i", "n", "t", "l", "n">>,
     <<"c", "o", "u", "t">>, <<"l", "e", "n">>, <<"r", "a", "n", "g", "e">>,
     <<"l", "i", "s", "t">>}

RECURSIVE visit(_, _)
RECURSIVE VisitAll(_, _)
RECURSIVE VisitElifs(_, _)

\* VisitAll giving up the walk once an error is recorded.
VisitAll_StopAtError(c, nodes) ==
    IF nodes = <<>> \/ c.errors # <<>> THEN c
    ELSE VisitAll(visit(c, Head(nodes)).tc, Tail(nodes))

\* for statement in statements: self.visit(statement)
VisitAll(c, nodes) ==
    IF nodes = <<>> THEN c ELSE VisitAll(visit(c, Head(nodes)).tc, Tail(nodes))

\* The parameter loop of visit_functiondef.
RECURSIVE DefineParameters(_, _)
DefineParameters(st, parameters) ==
    IF parameters = <<>> THEN st
    ELSE DefineParameters(
             define(st, Symbol(Head(parameters)[1], "parameter", Head(parameters)[2])),
             Tail(parameters))

FunctionSymbol(node) ==
    [Symbol(node.name, "function", "function") EXCEPT
        !.parameters = node.parameters, !.return_type = node.return_type]

\* visit_functiondef defining the function's symbol only once its body has
\* been visited.
visit_functiondef_DefineLate(c, node) ==
    IF is_defined(c.symbol_table, node.name, TRUE)
    THEN Result(error(c, "Function '{name}' is already defined", node.name, <<>>), None)
    ELSE LET func_symbol == FunctionSymbol(node)
             c1 == [c EXCEPT
                      !.symbol_table = DefineParameters(
                          enter_scope(c.symbol_table, "function"), node.parameters),
                      !.current_function = func_symbol]
             c2 == VisitAll(c1, node.body)
         IN  Result([c2 EXCEPT !.symbol_table = define(exit_scope(@), func_symbol),
                               !.current_function = NoSymbol], None)

visit_functiondef(c, node) ==
    IF is_defined(c.symbol_table, node.name, TRUE)
    THEN Result(error(c, "Function '{name}' is already defined", node.name, <<>>), None)
    ELSE LET func_symbol == FunctionSymbol(node)
             c1 == [c EXCEPT
                      !.symbol_table = DefineParameters(
                          enter_scope(define(c.symbol_table, func_symbol), "function"),
                          node.parameters),
                      !.current_function = func_symbol]
             c2 == VisitAll(c1, node.body)
         IN  Result([c2 EXCEPT !.symbol_table = exit_scope(@),
                               !.current_function = NoSymbol], None)

visit_variabledecl(c, node) ==
    IF is_defined(c.symbol_table, node.name, TRUE)
    THEN Result(error(c, "Variable '{name}' is already defined in this scope",
                      node.name, <<>>), None)
    ELSE LET r == IF node.var_type = None /\ node.initial_value # NoNode
                  THEN visit(c, node.initial_value)
                  ELSE Result(c, node.var_type)
         IN  Result([r.tc EXCEPT !.symbol_table =
                        define(@, Symbol(node.name, "variable", r.type))], None)

\* visit_assignment looking the target up in the current scope only.
visit_assignment_CurrentOnly(c, node) ==
    LET symbol == lookup(c.symbol_table, node.target, TRUE) IN
    IF symbol = NoSymbol
    THEN IF c.language = "python"
         THEN LET r == visit(c, node.value) IN
              Result([r.tc EXCEPT !.symbol_table =
                         define(@, Symbol(node.target, "variable", r.type))], None)
         ELSE Result(error(c, "Variable '{name}' is not defined", node.target, <<>>), None)
    ELSE LET r == visit(c, node.value) IN
         IF /\ symbol.symbol_type # None /\ r.type # None
            /\ ~is_type_compatible(symbol.symbol_type, r.type)
         THEN Result(error(r.tc, "Type mismatch: cannot assign {} to {}", <<>>,
                           <<r.type, symbol.symbol_type>>), None)
         ELSE Result(r.tc, None)

visit_assignment(c, node) ==
    LET symbol == lookup(c.symbol_table, node.target, FALSE) IN
    IF symbol = NoSymbol
    THEN IF c.language = "python"
         THEN LET r == visit(c, node.value) IN
              Result([r.tc EXCEPT !.symbol_table =
                         define(@, Symbol(node.target, "variable", r.type))], None)
         ELSE Result(error(c, "Variable '{name}' is not defined", node.target, <<>>), None)
    ELSE LET r == visit(c, node.value) IN
         IF /\ symbol.symbol_type # None /\ r.type # None
            /\ ~is_type_compatible(symbol.symbol_type, r.type)
         THEN Result(error(r.tc, "Type mismatch: cannot assign {} to {}", <<>>,
                           <<r.type, symbol.symbol_type>>), None)
         ELSE Result(r.tc, None)

\* The warning visit_ifstatement and visit_whileloop give on a condition type.
ConditionWarning(r) ==
    IF r.type # None /\ r.type \notin {"bool", "boolean", "int"}
    THEN warning(r.tc, "Condition has type {}, expected boolean", <<r.type>>)
    ELSE r.tc

\* The elif loop of visit_ifstatement.
VisitElifs(c, elif_blocks) ==
    IF elif_blocks = <<>> THEN c
    ELSE VisitElifs(VisitAll(visit(c, Head(elif_blocks)[1]).tc, Head(elif_blocks)[2]),
                    Tail(elif_blocks))

visit_ifstatement(c, node) ==
    LET c1 == ConditionWarning(visit(c, node.condition))
        c2 == VisitAll(c1, node.then_block)
        c3 == VisitElifs(c2, node.elif_blocks)
    IN  Result(VisitAll(c3, node.else_block), None)

visit_whileloop(c, node) ==
    Result(VisitAll(ConditionWarning(visit(c, node.condition)), node.body), None)

visit_forloop(c, node) ==
    LET c1 == visit(c, node.iterable).tc
        c2 == IF node.variable # <<>>
              THEN [c1 EXCEPT !.symbol_table =
                       define(@, Symbol(node.variable, "variable", None))]
              ELSE c1
    IN  Result(VisitAll(c2, node.body), None)

visit_return(c, node) ==
    IF c.current_function = NoSymbol
    THEN Result(error(c, "Return statement outside of function", <<>>, <<>>), None)
    ELSE IF node.expression = NoNode THEN Result(c, None)
    ELSE LET r == visit(c, node.expression)
             expected_type == c.current_function.return_type
         IN  IF /\ expected_type # None /\ r.type # None
                /\ ~is_type_compatible(expected_type, r.type)
             THEN Result(error(r.tc, "Return type mismatch: expected {}, got {}", <<>>,
                               <<expected_type, r.type>>), None)
             ELSE Result(r.tc, None)

visit_binaryop(c, node) ==
    LET l == visit(c, node.left)
        r == visit(l.tc, node.right)
        left_type == l.type
        right_type == r.type
        bool == IF c.language = "python" THEN "bool" ELSE "boolean"
    IN  IF left_type = None \/ right_type = None THEN Result(r.tc, None)
        ELSE IF node.operator \in {"+", "-", "*", "/", "%", "//", "**"}
        THEN IF {left_type, right_type} \subseteq {"int", "float", "double"}
             THEN IF "float" \in {left_type, right_type} \/ "double" \in {left_type, right_type}
                  THEN Result(r.tc, "float")
                  ELSE Result(r.tc, "int")
             ELSE IF node.operator = "+" /\ left_type = "str" /\ right_type = "str"
             THEN Result(r.tc, "str")
             ELSE Result(error(r.tc, "Invalid operands for {}: {} and {}", <<>>,
                               <<node.operator, left_type, right_type>>), None)
        ELSE IF node.operator \in {"==", "!=", "<", ">", "<=", ">="}
        THEN Result(r.tc, bool)
        ELSE IF node.operator \in {"and", "or", "&&", "||"}
        THEN Result(r.tc, bool)
        ELSE Result(r.tc, None)

visit_unaryop(c, node) ==
    LET r == visit(c, node.operand) IN
    IF node.operator \in {"-", "+"}
    THEN IF r.type \in {"int", "float", "double"}
         THEN r
         ELSE Result(error(r.tc, "Invalid operand for {}: {}", <<>>,
                           <<node.operator, r.type>>), None)
    ELSE IF node.operator \in {"not", "!"}
    THEN Result(r.tc, IF c.language = "python" THEN "bool" ELSE "boolean")
    ELSE Result(r.tc, None)

visit_functioncall(c, node) ==
    LET func_symbol == lookup(c.symbol_table, node.function_name, FALSE) IN
    IF func_symbol = NoSymbol
    THEN IF node.function_name \in Builtins
         THEN Result(VisitAll(c, node.arguments), None)
         ELSE Result(error(c, "Function '{name}' is not defined",
                           node.function_name, <<>>), None)
    ELSE IF func_symbol.kind # "function"
    THEN Result(error(c, "'{name}' is not a function", node.function_name, <<>>), None)
    ELSE LET c1 == IF Len(node.arguments) # Len(func_symbol.parameters)
                   THEN error(c, "Function '{name}' expects {} arguments, got {}",
                              node.function_name, <<>>)
                   ELSE c
         IN  Result(VisitAll(c1, node.arguments), func_symbol.return_type)

visit_identifier(c, node) ==
    LET symbol == lookup(c.symbol_table, node.name, FALSE) IN
    IF symbol = NoSymbol
    THEN Result(error(c, "Variable '{name}' is not defined", node.name, <<>>), None)
    ELSE Result(c, symbol.symbol_type)

visit_literal(c, node) ==
    Result(c, CASE node.literal_type = "string" -> "str"
                [] node.literal_type = "boolean" -> "bool"
                [] node.literal_type = "null" -> NoneName
                [] OTHER -> node.literal_type)

visit_expressionstatement(c, node) == Result(visit(c, node.expression).tc, None)

generic_visit(c, node) ==
    Result(warning(c, "No visitor for node type: {}", <<node.node_type>>), None)

visit(c, node) ==
    CASE node = NoNode -> Result(c, None)
      [] node.node_type = "FunctionDef" -> visit_functiondef(c, node)
      [] node.node_type = "VariableDecl" -> visit_variabledecl(c, node)
      [] node.node_type = "Assignment" -> visit_assignment(c, node)
      [] node.node_type = "IfStatement" -> visit_ifstatement(c, node)
      [] node.node_type = "WhileLoop" -> visit_whileloop(c, node)
      [] node.node_type = "ForLoop" -> visit_forloop(c, node)
      [] node.node_type = "Return" -> visit_return(c, node)
      [] node.node_type = "BinaryOp" -> visit_binaryop(c, node)
      [] node.node_type = "UnaryOp" -> visit_unaryop(c, node)
      [] node.node_type = "FunctionCall" -> visit_functioncall(c, node)
      [] node.node_type = "Identifier" -> visit_identifier(c, node)
      [] node.node_type = "Literal" -> visit_literal(c, node)
      [] node.node_type = "ExpressionStatement" -> visit_expressionstatement(c, node)
      [] OTHER -> generic_visit(c, node)

(***************************************************************************)
(* The checker specification: TypeChecker("python").check(ast), one        *)
(* top-level statement of visit_program per step.                          *)
(***************************************************************************)
MaxArgs == 2        \* most arguments of a call

undefined_var == <<"u">>
factorial == <<"f">>
NameN == <<"n">>
NameX == <<"x">>
NameG == <<"g">>
NameI == <<"i">>
print == <<"p", "r", "i", "n", "t">>

One == Literal(<<"1">>, "int")

Atoms == {One, Identifier(NameN), Identifier(undefined_var), Identifier(NameX)}

Calls ==
    {FunctionCall(callee, arguments) :
        callee \in {factorial, NameG, print, NameX},
        arguments \in SeqsUpTo(Atoms, MaxArgs)}

Expressions ==
    Atoms \cup Calls
          \cup {BinaryOp(l, op, r) : l \in Atoms, op \in {"*", "<=", "and"}, r \in Atoms}
          \cup {UnaryOp(op, e) : op \in {"-", "not"}, e \in Atoms}
          \cup {BinaryOp(Identifier(NameN), "*", call) :
                    call \in {FunctionCall(factorial, <<e>>) : e \in Atoms}}

Untyped(names) == [k \in 1..Len(names) |-> <<names[k], None>>]

ReturnOne == Return(One)

\* def factorial(n): if n <= 1: return 1 / return n * factorial(n - 1)
FactorialAst ==
    Program(<<FunctionDef(factorial, Untyped(<<NameN>>), None,
        <<IfStatement(BinaryOp(Identifier(NameN), "<=", One), <<ReturnOne>>, <<>>, <<>>),
          Return(BinaryOp(Identifier(NameN), "*",
                     FunctionCall(factorial, <<BinaryOp(Identifier(NameN), "-", One)>>)))>>)>>)

\* The programs an expression e is placed in.
Contexts(e) ==
    {Program(<<Assignment(NameX, e, "=")>>),
     Program(<<ExpressionStatement(e)>>),
     Program(<<Return(e)>>),
     Program(<<Assignment(NameX, One, "=") , Assignment(NameX, e, "=")>>),
     Program(<<WhileLoop(e, <<Assignment(NameX, One, "=")>>)>>),
     Program(<<ForLoop(NameI, e, <<Assignment(NameX, Identifier(NameI), "=")>>)>>),
     Program(<<FunctionDef(factorial, <<>>, None, <<ReturnOne>>),
               FunctionDef(factorial, <<>>, None, <<Return(e)>>)>>),
     Program(<<FunctionDef(factorial, Untyped(<<NameN>>), None,
                 <<FunctionDef(NameG, <<>>, None, <<ReturnOne>>), Return(e)>>)>>),
     Program(<<FunctionDef(factorial, Untyped(<<NameN>>), None,
                 <<IfStatement(One, <<ReturnOne>>, <<<<e, <<ReturnOne>>>>>>, <<ReturnOne>>)>>)>>),
     Program(<<FunctionDef(factorial, Untyped(<<NameN>>), None,
                 <<IfStatement(e, <<ReturnOne>>, <<>>, <<>>), Return(e)>>)>>)}
    \cup {Program(<<FunctionDef(factorial, parameters, return_type, <<Return(e)>>)>>) :
            parameters \in {<<>>, Untyped(<<NameN>>), Untyped(<<factorial>>),
                            Untyped(<<NameN, NameX>>), <<<<NameN, "int">>>>},
            return_type \in {None, "int"}}

Programs == {FactorialAst} \cup UNION {Contexts(e) : e \in Expressions}

CheckerInit ==
    /\ checker \in [tc : {TypeChecker("python")}, ast : Programs, next : {1},
                     returned : {FALSE}, is_valid : {FALSE}]
    /\ LexIdle /\ SymIdle /\ RunIdle /\ CompatIdle /\ PipeIdle

\* visit_program: self.visit(statement) for the next top-level statement
VisitStatement ==
    /\ ~checker.returned
    /\ checker.next <= Len(checker.ast.statements)
    /\ checker' = [checker EXCEPT
                      !.tc = visit(@, checker.ast.statements[checker.next]).tc,
                      !.next = @ + 1]
    /\ UNCHANGED <<LexVars, SymVars, RunVars, compat, PipeVars>>

\* check: return len(self.errors) == 0
CheckReturn ==
    /\ ~checker.returned
    /\ checker.next > Len(checker.ast.statements)
    /\ checker' = [checker EXCEPT !.returned = TRUE,
                                  !.is_valid = (checker.tc.errors = <<>>)]
    /\ UNCHANGED <<LexVars, SymVars, RunVars, compat, PipeVars>>

CheckerNext == VisitStatement \/ CheckReturn

SpecChecker == CheckerInit /\ [][CheckerNext]_vars

\* Whether an expression of the node (an assignment value, a return value, a
\* condition, a call argument, an operand) is the identifier `name`.
RECURSIVE References(_, _)
RECURSIVE AnyReferences(_, _)
AnyReferences(nodes, name) ==
    \E k \in 1..Len(nodes) : References(nodes[k], name)

References(node, name) ==
    CASE node.node_type = "Program" -> AnyReferences(node.statements, name)
      [] node.node_type = "FunctionDef" -> AnyReferences(node.body, name)
      [] node.node_type = "Assignment" -> References(node.value, name)
      [] node.node_type = "IfStatement" ->
            \/ References(node.condition, name)
            \/ AnyReferences(node.then_block, name)
            \/ \E k \in 1..Len(node.elif_blocks) :
                  \/ References(node.elif_blocks[k][1], name)
                  \/ AnyReferences(node.elif_blocks[k][2], name)
            \/ AnyReferences(node.else_block, name)
      [] node.node_type = "WhileLoop" ->
            References(node.condition, name) \/ AnyReferences(node.body, name)
      [] node.node_type = "ForLoop" ->
            References(node.iterable, name) \/ AnyReferences(node.body, name)
      [] node.node_type = "Return" -> References(node.expression, name)
      [] node.node_type = "BinaryOp" ->
            References(node.left, name) \/ References(node.right, name)
      [] node.node_type = "UnaryOp" -> References(node.operand, name)
      [] node.node_type = "FunctionCall" -> AnyReferences(node.arguments, name)
      [] node.node_type = "Identifier" -> node.name = name
      [] node.node_type = "ExpressionStatement" -> References(node.expression, name)
      [] OTHER -> FALSE

Errors == {checker.tc.errors[k] : k \in 1..Len(checker.tc.errors)}

\* C9: under python, when an expression of the program references an
\* identifier that no scope defines (undefined_var is defined nowhere in these
\* programs), check returns false and some error message names that identifier.
C9_UndefinedIdentifierNamed ==
    (checker.returned /\ References(checker.ast, undefined_var)) =>
        /\ ~checker.is_valid
        /\ \E e \in Errors : e.name = undefined_var

\* The node and every node below it.
RECURSIVE Nodes(_)
RECURSIVE NodesOf(_)
NodesOf(nodes) == UNION {Nodes(nodes[k]) : k \in 1..Len(nodes)}

Nodes(node) ==
    {node} \cup
    CASE node.node_type = "Program" -> NodesOf(node.statements)
      [] node.node_type = "FunctionDef" -> NodesOf(node.body)
      [] node.node_type = "Assignment" -> Nodes(node.value)
      [] node.node_type = "IfStatement" ->
            Nodes(node.condition) \cup NodesOf(node.then_block) \cup NodesOf(node.else_block)
            \cup UNION {Nodes(node.elif_blocks[k][1]) \cup NodesOf(node.elif_blocks[k][2]) :
                           k \in 1..Len(node.elif_blocks)}
      [] node.node_type = "WhileLoop" -> Nodes(node.condition) \cup NodesOf(node.body)
      [] node.node_type = "ForLoop" -> Nodes(node.iterable) \cup NodesOf(node.body)
      [] node.node_type = "Return" -> Nodes(node.expression)
      [] node.node_type = "BinaryOp" -> Nodes(node.left) \cup Nodes(node.right)
      [] node.node_type = "UnaryOp" -> Nodes(node.operand)
      [] node.node_type = "FunctionCall" -> NodesOf(node.arguments)
      [] node.node_type = "ExpressionStatement" -> Nodes(node.expression)
      [] OTHER -> {}

NodesOfType(node, node_type) == {m \in Nodes(node) : m.node_type = node_type}

ParameterNames(function) ==
    {function.parameters[k][1] : k \in 1..Len(function.parameters)}

\* A program that is one function whose name no parameter hides and whose
\* body calls the function, each time with as many arguments as parameters.
SelfRecursive(ast) ==
    /\ Len(ast.statements) = 1
    /\ ast.statements[1].node_type = "FunctionDef"
    /\ LET function == ast.statements[1]
           self_calls == {call \in NodesOfType(function, "FunctionCall") :
                             call.function_name = function.name}
       IN  /\ function.name \notin ParameterNames(function)
           /\ self_calls # {}
           /\ \A call \in self_calls : Len(call.arguments) = Len(function.parameters)

\* Nothing but the call of the function itself could be reported: no type
\* annotations, no nested function, no sign operator, every identifier a
\* parameter and every call a call of the function.
NothingElseToReport(function) ==
    /\ function.return_type = None
    /\ \A k \in 1..Len(function.parameters) : function.parameters[k][2] = None
    /\ NodesOfType(function, "FunctionDef") = {function}
    /\ \A m \in NodesOfType(function, "UnaryOp") : m.operator \notin {"-", "+"}
    /\ \A m \in NodesOfType(function, "Identifier") : m.name \in ParameterNames(function)
    /\ \A m \in NodesOfType(function, "FunctionCall") : m.function_name = function.name

FunctionSymbolsNamed(st, name) ==
    {at \in get_all_symbols(st) :
        at[2] = name /\ st.scopes[at[1]].symbols[at[2]].kind = "function"}

NoToken == [type |-> None]

NewParser(tokens) == [tokens |-> tokens, position |-> 0, status |-> "ok", error |-> None]

current_token(p) ==
    IF p.position < Len(p.tokens) THEN p.tokens[p.position + 1] ELSE NoToken

parser_advance(p) == IF p.status = "ok" THEN [p EXCEPT !.position = @ + 1] ELSE p

parser_peek(p, offset) ==
    IF p.position + offset < Len(p.tokens) THEN p.tokens[p.position + offset + 1] ELSE NoToken

parser_raise(p, what) ==
    IF p.status = "ok" THEN [p EXCEPT !.status = "raised", !.error = what] ELSE p

Diverge(p) == IF p.status = "ok" THEN [p EXCEPT !.status = "diverges"] ELSE p

\* match: value <<>> stands for the value not being given.
match(p, token_type, value) ==
    /\ current_token(p).type = token_type
    /\ value = <<>> \/ current_token(p).value = value

expect(p, token_type, value) ==
    IF match(p, token_type, value) THEN parser_advance(p) ELSE parser_raise(p, "ParseError")

consume(p, token_type, value) ==
    IF match(p, token_type, value) THEN parser_advance(p) ELSE p

RECURSIVE skip_newlines(_)
skip_newlines(p) ==
    IF p.status = "ok" /\ current_token(p).type = "NEWLINE"
    THEN skip_newlines(parser_advance(p)) ELSE p

\* The result of a parse method: the node first, the parser after it.
Parsed(p, node) == [node |-> node, p |-> p]

\* The names the model writes operators and type annotations with, against
\* their spelling in the text.
Spellings ==
    { <<<<"+">>, "+">>, <<<<"-">>, "-">>, <<<<"*">>, "*">>, <<<<"/">>, "/">>, <<<<"%">>, "%">>,
      <<<<"/", "/">>, "//">>, <<<<"*", "*">>, "**">>, <<<<"=", "=">>, "==">>, <<<<"!", "=">>, "!=">>,
      <<<<"<">>, "<">>, <<<<">">>, ">">>, <<<<"<", "=">>, "<=">>, <<<<">", "=">>, ">=">>,
      <<<<"a", "n", "d">>, "and">>, <<<<"o", "r">>, "or">>, <<<<"n", "o", "t">>, "not">>, <<<<"=">>, "=">>,
      <<<<"+", "=">>, "+=">>, <<<<"-", "=">>, "-=">>, <<<<"i", "n", "t">>, "int">>, <<<<"f", "l", "o", "a", "t">>, "float">>,
      <<<<"s", "t", "r">>, "str">>, <<<<"b", "o", "o", "l">>, "bool">> }

NameOf(text) ==
    IF \E s \in Spellings : s[1] = text
    THEN (CHOOSE s \in Spellings : s[1] = text)[2] ELSE "object"

TextOf(name) ==
    IF \E s \in Spellings : s[2] = name
    THEN (CHOOSE s \in Spellings : s[2] = name)[1] ELSE <<>>

\* str(int(text)): the digits without their leading zeros.
RECURSIVE IntText(_)
IntText(text) ==
    IF Len(text) > 1 /\ Head(text) = "0" THEN IntText(Tail(text)) ELSE text

RECURSIVE parse_statement(_)
RECURSIVE parse_expression(_)
RECURSIVE parse_block(_)
RECURSIVE parse_unary(_)
RECURSIVE parse_power(_)

\* parse_parameters: the loop, with the parameters read so far.
RECURSIVE ParametersLoop(_, _)
ParametersLoop(p, parameters) ==
    IF p.status = "ok" /\ current_token(p) # NoToken /\ current_token(p).type # "RPAREN"
    THEN IF current_token(p).type = "IDENTIFIER"
         THEN LET param_name == current_token(p).value
                  p1 == parser_advance(p)
                  annotated == match(p1, "COLON", <<>>)
                  p2 == consume(p1, "COLON", <<>>)
                  typed == annotated /\ current_token(p2).type = "IDENTIFIER"
                  param_type == IF typed THEN NameOf(current_token(p2).value) ELSE None
                  p3 == IF typed THEN parser_advance(p2) ELSE p2
                  sofar == Append(parameters, <<param_name, param_type>>)
              IN  IF match(p3, "COMMA", <<>>)
                  THEN ParametersLoop(parser_advance(p3), sofar)
                  ELSE Parsed(p3, sofar)
         ELSE Parsed(Diverge(p), parameters)
    ELSE Parsed(p, parameters)

parse_parameters(p) == ParametersLoop(p, <<>>)

parse_function_def(p) ==
    LET p1 == expect(p, "KEYWORD", <<"d", "e", "f">>)
        name == current_token(p1).value
        p2 == expect(expect(p1, "IDENTIFIER", <<>>), "LPAREN", <<>>)
        WithParameters(ps) ==
            LET p3 == expect(ps.p, "RPAREN", <<>>)
                arrow == match(p3, "ARROW", <<>>)
                p4 == consume(p3, "ARROW", <<>>)
                typed == arrow /\ current_token(p4).type = "IDENTIFIER"
                return_type == IF typed THEN NameOf(current_token(p4).value) ELSE None
                p5 == IF typed THEN parser_advance(p4) ELSE p4
                p6 == skip_newlines(expect(p5, "COLON", <<>>))
                WithBody(body) ==
                    IF body.p.status = "ok"
                    THEN Parsed(body.p, FunctionDef(name, ps.node, return_type, body.node))
                    ELSE Parsed(body.p, NoNode)
            IN  WithBody(parse_block(p6))
    IN  WithParameters(parse_parameters(p2))

\* statements.append(stmt) if stmt, in parse and parse_block.
AppendStatement(statements, r) ==
    Parsed(skip_newlines(r.p),
           IF r.node # NoNode THEN Append(statements, r.node) ELSE statements)

\* parse_block: the loop after the INDENT, b.node being the statements read so far.
RECURSIVE BlockLoop(_)
BlockLoop(b) ==
    IF b.p.status = "ok" /\ current_token(b.p) # NoToken /\ current_token(b.p).type # "DEDENT"
    THEN IF current_token(b.p).type = "EOF"
         THEN Parsed(Diverge(b.p), b.node)
         ELSE BlockLoop(AppendStatement(b.node, parse_statement(b.p)))
    ELSE Parsed(consume(b.p, "DEDENT", <<>>), b.node)

\* parse_block without an INDENT: return [stmt] if stmt else [].
SingleStatement(r) == Parsed(r.p, IF r.node # NoNode THEN <<r.node>> ELSE <<>>)

parse_block(p) ==
    IF p.status # "ok" THEN Parsed(p, <<>>)
    ELSE IF ~match(p, "INDENT", <<>>)
    THEN SingleStatement(parse_statement(p))
    ELSE BlockLoop(Parsed(parser_advance(p), <<>>))

\* self.expect(COLON); self.skip_newlines(); self.parse_block(), after the
\* expression c.
BlockAfter(c) == parse_block(skip_newlines(expect(c.p, "COLON", <<>>)))

\* parse_if_statement: the elif loop, e.node being the blocks read so far.
RECURSIVE ElifLoop(_)
ElifLoop(e) ==
    IF e.p.status = "ok" /\ match(e.p, "KEYWORD", <<"e", "l", "i", "f">>)
    THEN LET WithCondition(c) ==
                 LET WithBlock(b) == Parsed(b.p, Append(e.node, <<c.node, b.node>>))
                 IN  WithBlock(BlockAfter(c))
         IN  ElifLoop(WithCondition(parse_expression(parser_advance(e.p))))
    ELSE e

parse_if_statement(p) ==
    LET WithCondition(c) ==
            LET WithThen(t) ==
                    LET WithElifs(e) ==
                            LET WithElse(l) ==
                                    IF l.p.status = "ok"
                                    THEN Parsed(l.p, IfStatement(c.node, t.node, e.node, l.node))
                                    ELSE Parsed(l.p, NoNode)
                            IN  WithElse(IF match(e.p, "KEYWORD", <<"e", "l", "s", "e">>)
                                         THEN BlockAfter(Parsed(parser_advance(e.p), NoNode))
                                         ELSE Parsed(e.p, <<>>))
                    IN  WithElifs(ElifLoop(Parsed(t.p, <<>>)))
            IN  WithThen(BlockAfter(c))
    IN  WithCondition(parse_expression(expect(p, "KEYWORD", <<"i", "f">>)))

parse_while_loop(p) ==
    LET WithCondition(c) ==
            LET WithBody(b) ==
                    IF b.p.status = "ok"
                    THEN Parsed(b.p, WhileLoop(c.node, b.node))
                    ELSE Parsed(b.p, NoNode)
            IN  WithBody(BlockAfter(c))
    IN  WithCondition(parse_expression(expect(p, "KEYWORD", <<"w", "h", "i", "l", "e">>)))

parse_for_loop(p) ==
    LET p1 == expect(p, "KEYWORD", <<"f", "o", "r">>)
        variable == current_token(p1).value
        p2 == expect(expect(p1, "IDENTIFIER", <<>>), "KEYWORD", <<"i", "n">>)
        WithIterable(i) ==
            LET WithBody(b) ==
                    IF b.p.status = "ok"
                    THEN Parsed(b.p, ForLoop(variable, i.node, b.node))
                    ELSE Parsed(b.p, NoNode)
            IN  WithBody(BlockAfter(i))
    IN  WithIterable(parse_expression(p2))

\* return Return(value=value) for the expression e just read.
ReturnOf(e) == IF e.p.status = "ok" THEN Parsed(e.p, Return(e.node)) ELSE Parsed(e.p, NoNode)

parse_return(p) ==
    LET p1 == expect(p, "KEYWORD", <<"r", "e", "t", "u", "r", "n">>) IN
    IF current_token(p1) # NoToken /\ current_token(p1).type \notin {"NEWLINE", "EOF"}
    THEN ReturnOf(parse_expression(p1))
    ELSE Parsed(p1, Return(NoNode))

\* return Assignment(target, value, operator) for the value v just read.
AssignmentOf(target, operator, v) ==
    IF v.p.status = "ok"
    THEN Parsed(v.p, Assignment(target, v.node, operator))
    ELSE Parsed(v.p, NoNode)

parse_assignment(p) ==
    LET target == current_token(p).value
        p1 == expect(p, "IDENTIFIER", <<>>)
        operator == CASE match(p1, "PLUS_ASSIGN", <<>>) -> "+="
                      [] match(p1, "MINUS_ASSIGN", <<>>) -> "-="
                      [] OTHER -> "="
        p2 == IF current_token(p1).type \in {"ASSIGN", "PLUS_ASSIGN", "MINUS_ASSIGN"}
              THEN parser_advance(p1) ELSE p1
    IN  AssignmentOf(target, operator, parse_expression(p2))

\* return ExpressionStatement(expression=expr) for the expression e just read.
ExpressionStatementOf(e) ==
    IF e.p.status = "ok" THEN Parsed(e.p, ExpressionStatement(e.node)) ELSE Parsed(e.p, NoNode)

\* parse_statement after self.skip_newlines().  No program of these
\* specifications holds a class definition: parse_class_def is left out and
\* the parse stops at the keyword.
StatementAt(p) ==
    IF p.status # "ok" \/ current_token(p) = NoToken \/ current_token(p).type = "EOF"
    THEN Parsed(p, NoNode)
    ELSE CASE match(p, "KEYWORD", <<"d", "e", "f">>) -> parse_function_def(p)
           [] match(p, "KEYWORD", <<"c", "l", "a", "s", "s">>) -> Parsed(parser_raise(p, "ClassDef"), NoNode)
           [] match(p, "KEYWORD", <<"i", "f">>) -> parse_if_statement(p)
           [] match(p, "KEYWORD", <<"w", "h", "i", "l", "e">>) -> parse_while_loop(p)
           [] match(p, "KEYWORD", <<"f", "o", "r">>) -> parse_for_loop(p)
           [] match(p, "KEYWORD", <<"b", "r", "e", "a", "k">>) ->
                 Parsed(parser_raise(parser_advance(p), "NameError"), NoNode)
           [] match(p, "KEYWORD", <<"r", "e", "t", "u", "r", "n">>) -> parse_return(p)
           [] current_token(p).type = "IDENTIFIER"
              /\ parser_peek(p, 1).type \in {"ASSIGN", "PLUS_ASSIGN", "MINUS_ASSIGN"} ->
                 parse_assignment(p)
           [] current_token(p).type = "IDENTIFIER"
              /\ parser_peek(p, 1).type \notin {"ASSIGN", "PLUS_ASSIGN", "MINUS_ASSIGN"} ->
                 ExpressionStatementOf(parse_expression(p))
           [] OTHER -> Parsed(parser_advance(p), NoNode)

parse_statement(p) == StatementAt(skip_newlines(p))

\* args.append(self.parse_expression()) in parse_arguments.
AppendArgument(arguments, a) == Parsed(a.p, Append(arguments, a.node))

\* parse_arguments: the loop, r.node being the arguments read so far.
RECURSIVE ArgumentsLoop(_, _)
ArgumentsLoop(r, closing) ==
    IF r.p.status = "ok" /\ current_token(r.p) # NoToken /\ current_token(r.p).type # closing
    THEN LET Continue(a) ==
                 IF a.p.status = "ok" /\ match(a.p, "COMMA", <<>>)
                 THEN ArgumentsLoop(Parsed(parser_advance(a.p), a.node), closing)
                 ELSE a
         IN  Continue(AppendArgument(r.node, parse_expression(r.p)))
    ELSE r

parse_arguments(p) == ArgumentsLoop(Parsed(p, <<>>), "RPAREN")

\* The node of one part of an f-string in parse_primary: the text of a
\* string part, str(expression) of an expression part lexed and parsed on
\* its own.
FStringPart(p, part) ==
    IF part[1] = "string" THEN Parsed(p, Literal(part[2], "string"))
    ELSE LET WithLexer(expr_lexer) ==
                 IF expr_lexer.status = "raised"
                 THEN Parsed(parser_raise(p, expr_lexer.error), NoNode)
                 ELSE IF Front(expr_lexer.tokens) = <<>>
                 THEN Parsed(p, Literal(<<>>, "string"))
                 ELSE LET WithExpression(e) ==
                              IF e.p.status # "ok"
                              THEN Parsed([p EXCEPT !.status = e.p.status,
                                                    !.error = e.p.error], NoNode)
                              ELSE Parsed(p, FunctionCall(<<"s", "t", "r">>, <<e.node>>))
                      IN  WithExpression(parse_expression(NewParser(
                              Append(Front(expr_lexer.tokens), Token("EOF", None, 0, 0)))))
         IN  WithLexer(tokenize(NewLexer(part[2]), "python"))

\* The part loop of an f-string in parse_primary, r.node being the
\* concatenation so far.
RECURSIVE FStringParts(_, _)
FStringParts(r, parts) ==
    IF parts = <<>> \/ r.p.status # "ok"
    THEN Parsed(r.p, IF r.p.status # "ok" THEN NoNode
                     ELSE IF r.node = NoNode THEN Literal(<<>>, "string") ELSE r.node)
    ELSE LET Concatenate(part_node) ==
                 IF part_node.p.status # "ok" THEN part_node
                 ELSE Parsed(r.p, IF r.node = NoNode THEN part_node.node
                                  ELSE BinaryOp(r.node, "+", part_node.node))
         IN  FStringParts(Concatenate(FStringPart(r.p, Head(parts))), Tail(parts))

\* expr = self.parse_expression(); self.expect(RPAREN); return expr
ParenthesizedOf(e) == Parsed(expect(e.p, "RPAREN", <<>>), e.node)

\* elements = ...; self.expect(RBRACKET); return FunctionCall('list', elements)
ListOf(a) == Parsed(expect(a.p, "RBRACKET", <<>>), FunctionCall(<<"l", "i", "s", "t">>, a.node))

parse_primary(p) ==
    LET token == current_token(p) IN
    IF p.status # "ok" THEN Parsed(p, NoNode)
    ELSE IF token = NoToken THEN Parsed(parser_raise(p, "AttributeError"), NoNode)
    ELSE CASE token.type = "INTEGER" ->
                 Parsed(parser_advance(p), Literal(IntText(token.value), "int"))
           [] token.type = "FLOAT" -> Parsed(parser_advance(p), Literal(token.value, "float"))
           [] token.type = "STRING" -> Parsed(parser_advance(p), Literal(token.value, "string"))
           [] token.type = "F_STRING" ->
                 IF Len(token.value) = 1 /\ token.value[1][1] = "string"
                 THEN Parsed(parser_advance(p), Literal(token.value[1][2], "string"))
                 ELSE FStringParts(Parsed(parser_advance(p), NoNode), token.value)
           [] token.type = "KEYWORD" /\ token.value \in {<<"T", "r", "u", "e">>, <<"F", "a", "l", "s", "e">>} ->
                 Parsed(parser_advance(p), Literal(token.value, "bool"))
           [] token.type = "KEYWORD" /\ token.value = <<"N", "o", "n", "e">> ->
                 Parsed(parser_advance(p), Literal(<<>>, "null"))
           [] token.type = "IDENTIFIER" -> Parsed(parser_advance(p), Identifier(token.value))
           [] token.type = "LPAREN" -> ParenthesizedOf(parse_expression(parser_advance(p)))
           [] token.type = "LBRACKET" ->
                 ListOf(ArgumentsLoop(Parsed(parser_advance(p), <<>>), "RBRACKET"))
           [] OTHER -> Parsed(parser_raise(p, "ParseError"), NoNode)

\* args = self.parse_arguments(); self.expect(RPAREN); the call node.
CallOf(a, node) == Parsed(expect(a.p, "RPAREN", <<>>), node)

\* index = self.parse_expression(); self.expect(RBRACKET); the subscript.
SubscriptOf(i, expr) ==
    Parsed(expect(i.p, "RBRACKET", <<>>),
           IF i.p.status = "ok" /\ expr.node_type = "Identifier"
           THEN FunctionCall(expr.name \o <<"[", "]">>, <<i.node>>) ELSE expr)

\* parse_postfix: the loop over calls, subscripts and attributes of the
\* expression r.node.
\* The attribute branch of parse_postfix, p1 being the parser after the dot.
AttributeOf(p1, expr) ==
    LET attr_name == current_token(p1).value
        p2 == parser_advance(p1)
        name == (IF expr.node_type = "Identifier" THEN expr.name ELSE <<"?">>)
                    \o <<".">> \o attr_name
        MethodCall(a) == CallOf(a, FunctionCall(name, a.node))
    IN  IF match(p2, "LPAREN", <<>>)
        THEN MethodCall(parse_arguments(parser_advance(p2)))
        ELSE Parsed(p2, Identifier(name))

\* expr = FunctionCall(expr.name, args) for the arguments a just read.
CallOn(expr, a) ==
    CallOf(a, IF expr.node_type = "Identifier" THEN FunctionCall(expr.name, a.node) ELSE expr)

RECURSIVE PostfixLoop(_)
PostfixLoop(r) ==
    IF r.p.status # "ok" \/ current_token(r.p) = NoToken THEN r
    ELSE CASE current_token(r.p).type = "DOT" ->
                 IF parser_peek(r.p, 1) = NoToken
                 THEN Parsed(parser_raise(parser_advance(r.p), "AttributeError"), r.node)
                 ELSE IF parser_peek(r.p, 1).type = "IDENTIFIER"
                 THEN PostfixLoop(AttributeOf(parser_advance(r.p), r.node))
                 ELSE PostfixLoop(Parsed(parser_advance(r.p), r.node))
           [] current_token(r.p).type = "LPAREN" ->
                 PostfixLoop(CallOn(r.node, parse_arguments(parser_advance(r.p))))
           [] current_token(r.p).type = "LBRACKET" ->
                 PostfixLoop(SubscriptOf(parse_expression(parser_advance(r.p)), r.node))
           [] OTHER -> r

parse_postfix(p) == PostfixLoop(parse_primary(p))

\* return UnaryOp(operator, operand) for the operand e just read.
UnaryOpOf(operator, e) == Parsed(e.p, UnaryOp(operator, e.node))

parse_unary(p) ==
    IF p.status = "ok" /\ current_token(p).type \in {"MINUS", "PLUS"}
    THEN UnaryOpOf(NameOf(current_token(p).value), parse_unary(parser_advance(p)))
    ELSE IF p.status = "ok" /\ match(p, "KEYWORD", <<"n", "o", "t">>)
    THEN UnaryOpOf("not", parse_unary(parser_advance(p)))
    ELSE parse_postfix(p)

\* left = BinaryOp(left, operator, right) for the right operand r just read.
BinaryOpOf(left, operator, r) == Parsed(r.p, BinaryOp(left, operator, r.node))

\* parse_power after its left operand l.
PowerOf(l) ==
    IF l.p.status = "ok" /\ current_token(l.p).type = "POWER"
    THEN BinaryOpOf(l.node, "**", parse_power(parser_advance(l.p)))
    ELSE l

parse_power(p) == PowerOf(parse_unary(p))

\* The loop of a left-associative level.  XLoop is entered where an operand
\* starts, `left operator` having been read (operator is None at the level's
\* first operand); XNext joins the operand r just read to left and goes on
\* while the current token is one of the level's operators.
JoinOperand(left, operator, right) ==
    IF operator = None THEN right ELSE BinaryOp(left, operator, right)

RECURSIVE MultiplicativeLoop(_, _, _)
MultiplicativeNext(left, operator, r) ==
    IF r.p.status = "ok" /\ current_token(r.p).type \in {"MULTIPLY", "DIVIDE", "MODULO", "FLOOR_DIVIDE"}
    THEN MultiplicativeLoop(parser_advance(r.p), JoinOperand(left, operator, r.node), NameOf(current_token(r.p).value))
    ELSE Parsed(r.p, JoinOperand(left, operator, r.node))

MultiplicativeLoop(p, left, operator) == MultiplicativeNext(left, operator, parse_power(p))

parse_multiplicative(p) == MultiplicativeLoop(p, NoNode, None)

RECURSIVE AdditiveLoop(_, _, _)
AdditiveNext(left, operator, r) ==
    IF r.p.status = "ok" /\ current_token(r.p).type \in {"PLUS", "MINUS"}
    THEN AdditiveLoop(parser_advance(r.p), JoinOperand(left, operator, r.node), NameOf(current_token(r.p).value))
    ELSE Parsed(r.p, JoinOperand(left, operator, r.node))

AdditiveLoop(p, left, operator) == AdditiveNext(left, operator, parse_multiplicative(p))

parse_additive(p) == AdditiveLoop(p, NoNode, None)

RECURSIVE ComparisonLoop(_, _, _)
ComparisonNext(left, operator, r) ==
    IF r.p.status = "ok" /\ current_token(r.p).type \in {"EQUAL", "NOT_EQUAL", "LESS_THAN", "GREATER_THAN",
                                                      "LESS_EQUAL", "GREATER_EQUAL"}
    THEN ComparisonLoop(parser_advance(r.p), JoinOperand(left, operator, r.node), NameOf(current_token(r.p).value))
    ELSE Parsed(r.p, JoinOperand(left, operator, r.node))

ComparisonLoop(p, left, operator) == ComparisonNext(left, operator, parse_additive(p))

parse_comparison(p) == ComparisonLoop(p, NoNode, None)

RECURSIVE LogicalAndLoop(_, _, _)
LogicalAndNext(left, operator, r) ==
    IF r.p.status = "ok" /\ match(r.p, "KEYWORD", <<"a", "n", "d">>)
    THEN LogicalAndLoop(parser_advance(r.p), JoinOperand(left, operator, r.node), "and")
    ELSE Parsed(r.p, JoinOperand(left, operator, r.node))

LogicalAndLoop(p, left, operator) == LogicalAndNext(left, operator, parse_comparison(p))

parse_logical_and(p) == LogicalAndLoop(p, NoNode, None)

RECURSIVE LogicalOrLoop(_, _, _)
LogicalOrNext(left, operator, r) ==
    IF r.p.status = "ok" /\ match(r.p, "KEYWORD", <<"o", "r">>)
    THEN LogicalOrLoop(parser_advance(r.p), JoinOperand(left, operator, r.node), "or")
    ELSE Parsed(r.p, JoinOperand(left, operator, r.node))

LogicalOrLoop(p, left, operator) == LogicalOrNext(left, operator, parse_logical_and(p))

parse_logical_or(p) == LogicalOrLoop(p, NoNode, None)

parse_expression(p) == parse_logical_or(p)

\* parse: the statement loop, r.node being the statements read so far.
RECURSIVE ParseLoop(_)
ParseLoop(r) ==
    IF r.p.status = "ok" /\ current_token(r.p) # NoToken /\ current_token(r.p).type # "EOF"
    THEN ParseLoop(AppendStatement(r.node, parse_statement(r.p)))
    ELSE r

\* return Program(statements=statements)
ProgramOf(r) == Parsed(r.p, Program(r.node))

parse(p) == ProgramOf(ParseLoop(Parsed(skip_newlines(p), <<>>)))

(***************************************************************************)
(* ir/ir_nodes.py and ir/ir_generator.py.  A visitor takes the generator   *)
(* (its scopes) and an AST node and yields the generator after the visit   *)
(* with the IR node it returns.                                            *)
(***************************************************************************)
IRProgram == [node_type |-> "program", functions |-> <<>>, classes |-> <<>>, globals |-> <<>>]

IRFunction(name, parameters, return_type, body) ==
    [node_type |-> "function", ir_type |-> None, name |-> name,
     parameters |-> parameters, return_type |-> return_type, body |-> body]

IRVariable(name, var_type, initial_value) ==
    [node_type |-> "variable", ir_type |-> var_type, name |-> name,
     var_type |-> var_type, initial_value |-> initial_value]

IRAssignment(target, value, operator) ==
    [node_type |-> "assignment", ir_type |-> None, target |-> target,
     value |-> value, operator |-> operator]

IRIf(condition, then_block, elif_blocks, else_block) ==
    [node_type |-> "if", ir_type |-> None, condition |-> condition,
     then_block |-> then_block, elif_blocks |-> elif_blocks, else_block |-> else_block]

IRWhile(condition, body) ==
    [node_type |-> "while", ir_type |-> None, condition |-> condition, body |-> body]

IRFor(variable, iterable, body) ==
    [node_type |-> "for", ir_type |-> None, variable |-> variable,
     iterable |-> iterable, body |-> body]

IRReturn(value) == [node_type |-> "return", ir_type |-> None, value |-> value]

IRCall(function_name, arguments) ==
    [node_type |-> "call", ir_type |-> "any", function_name |-> function_name,
     arguments |-> arguments]

IRBinaryOp(left, operator, right, result_type) ==
    [node_type |-> "binary_op", ir_type |-> result_type, left |-> left,
     operator |-> operator, right |-> right]

IRUnaryOp(operator, operand, result_type) ==
    [node_type |-> "unary_op", ir_type |-> result_type, operator |-> operator,
     operand |-> operand]

IRLiteral(value, literal_type) ==
    [node_type |-> "literal", ir_type |-> literal_type, value |-> value,
     literal_type |-> literal_type]

IRIdentifier(name) == [node_type |-> "identifier", ir_type |-> "any", name |-> name]

IRGenerator(source_language) ==
    [source_language |-> source_language, ir_program |-> IRProgram, scopes |-> <<{}>>,
     status |-> "ok", error |-> None]

ir_enter_scope(g) == [g EXCEPT !.scopes = Append(@, {})]
ir_exit_scope(g) == [g EXCEPT !.scopes = Front(@)]
define_var(g, name) == [g EXCEPT !.scopes[Len(g.scopes)] = @ \cup {name}]
ir_is_defined(g, name) == \E k \in 1..Len(g.scopes) : name \in g.scopes[k]

map_type(type_str) ==
    CASE type_str = None -> "any"
      [] type_str \in {"int", "integer", "long", "short", "byte"} -> "int"
      [] type_str \in {"float", "double"} -> "float"
      [] type_str \in {"str", "string"} -> "string"
      [] type_str \in {"bool", "boolean"} -> "bool"
      [] type_str \in {"void", "none"} -> "void"
      [] type_str \in {"list", "array"} -> "array"
      [] OTHER -> "object"

map_literal_type(literal_type) ==
    CASE literal_type \in {"int", "float", "bool"} -> literal_type
      [] literal_type \in {"string", "str"} -> "string"
      [] literal_type = "boolean" -> "bool"
      [] literal_type \in {"null", "None"} -> "void"
      [] OTHER -> "any"

infer_binary_op_type(operator, left, right) ==
    IF operator \in {"==", "!=", "<", ">", "<=", ">=", "and", "or", "&&", "||"}
    THEN "bool"
    ELSE IF operator \in {"+", "-", "*", "/", "%", "//", "**"}
    THEN IF left # NoNode /\ left.ir_type = "float" THEN "float"
         ELSE IF right # NoNode /\ right.ir_type = "float" THEN "float"
         ELSE "int"
    ELSE "any"

Lowered(g, node) == [g |-> g, node |-> node]

RECURSIVE ir_visit(_, _)

\* [self.visit(stmt) for stmt in nodes] without the None results:
\* <<generator, IR nodes>>.
RECURSIVE LowerAll(_, _, _)
LowerAll(g, nodes, sofar) ==
    IF nodes = <<>> THEN Lowered(g, sofar)
    ELSE LET r == ir_visit(g, Head(nodes)) IN
         LowerAll(r.g, Tail(nodes), IF r.node # NoNode THEN Append(sofar, r.node) ELSE sofar)

\* The parameter loop of visit_functiondef: <<generator, ir_params>>.
RECURSIVE LowerParameters(_, _, _)
LowerParameters(g, parameters, ir_params) ==
    IF parameters = <<>> THEN Lowered(g, ir_params)
    ELSE LET param == Head(parameters)
             ir_param_type == IF param[2] # None THEN map_type(param[2]) ELSE "any"
         IN  LowerParameters(define_var(g, param[1]), Tail(parameters),
                             Append(ir_params, <<param[1], ir_param_type>>))

ir_visit_functiondef(g, node) ==
    LET return_type == IF node.return_type # None THEN map_type(node.return_type) ELSE "void"
        ps == LowerParameters(ir_enter_scope(g), node.parameters, <<>>)
        body == LowerAll(ps.g, node.body, <<>>)
    IN  Lowered(ir_exit_scope(body.g), IRFunction(node.name, ps.node, return_type, body.node))

ir_visit_variabledecl(g, node) ==
    LET var_type == IF node.var_type # None THEN map_type(node.var_type) ELSE "any"
        v == ir_visit(g, node.initial_value)
    IN  Lowered(v.g, IRVariable(node.name, var_type, v.node))

ir_visit_assignment(g, node) ==
    LET v == ir_visit(g, node.value) IN
    IF g.source_language = "python" /\ ~ir_is_defined(v.g, node.target)
    THEN Lowered(define_var(v.g, node.target), IRVariable(node.target, "any", v.node))
    ELSE Lowered(v.g, IRAssignment(node.target, v.node, node.operator))

\* The elif loop of visit_ifstatement: <<generator, elif_blocks>>.
RECURSIVE LowerElifs(_, _, _)
LowerElifs(g, elif_blocks, sofar) ==
    IF elif_blocks = <<>> THEN Lowered(g, sofar)
    ELSE LET c == ir_visit(g, Head(elif_blocks)[1])
             b == LowerAll(c.g, Head(elif_blocks)[2], <<>>)
         IN  LowerElifs(b.g, Tail(elif_blocks), Append(sofar, <<c.node, b.node>>))

ir_visit_ifstatement(g, node) ==
    LET c == ir_visit(g, node.condition)
        t == LowerAll(c.g, node.then_block, <<>>)
        e == LowerElifs(t.g, node.elif_blocks, <<>>)
        l == LowerAll(e.g, node.else_block, <<>>)
    IN  Lowered(l.g, IRIf(c.node, t.node, e.node, l.node))

ir_visit_whileloop(g, node) ==
    LET c == ir_visit(g, node.condition)
        b == LowerAll(c.g, node.body, <<>>)
    IN  Lowered(b.g, IRWhile(c.node, b.node))

ir_visit_forloop(g, node) ==
    LET i == ir_visit(g, node.iterable)
        b == LowerAll(i.g, node.body, <<>>)
    IN  Lowered(b.g, IRFor(node.variable, i.node, b.node))

ir_visit_return(g, node) ==
    LET v == ir_visit(g, node.expression) IN Lowered(v.g, IRReturn(v.node))

ir_visit_binaryop(g, node) ==
    LET l == ir_visit(g, node.left)
        r == ir_visit(l.g, node.right)
    IN  Lowered(r.g, IRBinaryOp(l.node, node.operator, r.node,
                                infer_binary_op_type(node.operator, l.node, r.node)))

ir_visit_unaryop(g, node) ==
    LET o == ir_visit(g, node.operand) IN
    Lowered(o.g, IRUnaryOp(node.operator, o.node,
                           IF o.node # NoNode THEN o.node.ir_type ELSE "any"))

ir_visit_functioncall(g, node) ==
    LET a == LowerAll(g, node.arguments, <<>>) IN
    Lowered(a.g, IRCall(node.function_name, a.node))

ir_visit_identifier(g, node) == Lowered(g, IRIdentifier(node.name))

ir_visit_literal(g, node) ==
    Lowered(g, IRLiteral(node.value, map_literal_type(node.literal_type)))

ir_visit_expressionstatement(g, node) == ir_visit(g, node.expression)

ir_visit(g, node) ==
    CASE node = NoNode -> Lowered(g, NoNode)
      [] node.node_type = "FunctionDef" -> ir_visit_functiondef(g, node)
      [] node.node_type = "VariableDecl" -> ir_visit_variabledecl(g, node)
      [] node.node_type = "Assignment" -> ir_visit_assignment(g, node)
      [] node.node_type = "IfStatement" -> ir_visit_ifstatement(g, node)
      [] node.node_type = "WhileLoop" -> ir_visit_whileloop(g, node)
      [] node.node_type = "ForLoop" -> ir_visit_forloop(g, node)
      [] node.node_type = "Return" -> ir_visit_return(g, node)
      [] node.node_type = "BinaryOp" -> ir_visit_binaryop(g, node)
      [] node.node_type = "UnaryOp" -> ir_visit_unaryop(g, node)
      [] node.node_type = "FunctionCall" -> ir_visit_functioncall(g, node)
      [] node.node_type = "Identifier" -> ir_visit_identifier(g, node)
      [] node.node_type = "Literal" -> ir_visit_literal(g, node)
      [] node.node_type = "ExpressionStatement" -> ir_visit_expressionstatement(g, node)
      [] OTHER -> Lowered(g, NoNode)

\* generate: the statement loop.  IRProgram has no main_body attribute, so
\* appending any other top-level node to it raises AttributeError.
RECURSIVE GenerateLoop(_, _)
GenerateLoop(g, statements) ==
    IF statements = <<>> \/ g.status # "ok" THEN g
    ELSE LET r == ir_visit(g, Head(statements))
             g1 == CASE r.node = NoNode -> r.g
                     [] r.node.node_type = "function" ->
                           [r.g EXCEPT !.ir_program.functions = Append(@, r.node)]
                     [] r.node.node_type = "class" ->
                           [r.g EXCEPT !.ir_program.classes = Append(@, r.node)]
                     [] r.node.node_type = "variable" ->
                           [r.g EXCEPT !.ir_program.globals = Append(@, r.node)]
                     [] OTHER ->
                           [r.g EXCEPT !.status = "raised", !.error = "AttributeError"]
         IN  GenerateLoop(g1, Tail(statements))

ir_generate(g, ast) == GenerateLoop([g EXCEPT !.ir_program = IRProgram], ast.statements)

(***************************************************************************)
(* codegen/base_generator.py and codegen/python_generator.py.  A visitor   *)
(* takes the generator (indent_level, generated_code) and an IR node and   *)
(* yields the generator after the visit with the code it returns.          *)
(***************************************************************************)
PythonGenerator == [target_language |-> "python", indent_level |-> 0, generated_code |-> <<>>]

\* not code.strip()
IsBlank(code) == \A k \in 1..Len(code) : code[k] \in {" ", "\t", "\n", "\r"}

emit(g, code) ==
    IF ~IsBlank(code)
    THEN [g EXCEPT !.generated_code =
             Append(@, [k \in 1..(g.indent_level * 4) |-> " "] \o code)]
    ELSE [g EXCEPT !.generated_code = Append(@, <<>>)]

indent(g) == [g EXCEPT !.indent_level = @ + 1]
dedent(g) == [g EXCEPT !.indent_level = IF @ > 0 THEN @ - 1 ELSE 0]

\* separator.join(texts)
RECURSIVE Join(_, _)
Join(texts, separator) ==
    IF texts = <<>> THEN <<>>
    ELSE IF Len(texts) = 1 THEN texts[1]
    ELSE texts[1] \o separator \o Join(Tail(texts), separator)

\* str(value).replace("'", "\\'")
RECURSIVE EscapeQuotes(_)
EscapeQuotes(text) ==
    IF text = <<>> THEN <<>>
    ELSE (IF Head(text) = "'" THEN <<"\\", "'">> ELSE <<Head(text)>>) \o EscapeQuotes(Tail(text))

\* str(float(text)) of a text of digits with one dot.
RECURSIVE StripTrailingZeros(_)
StripTrailingZeros(text) ==
    IF Len(text) > 1 /\ Last(text) = "0" THEN StripTrailingZeros(Front(text)) ELSE text

FloatText(text) ==
    LET dot == CHOOSE k \in 1..Len(text) : text[k] = "."
        whole == IntText(SubSeq(text, 1, dot - 1))
        fraction == SubSeq(text, dot + 1, Len(text))
    IN  whole \o <<".">> \o (IF fraction = <<>> THEN <<"0">> ELSE StripTrailingZeros(fraction))

func_map ==
    { <<<<"s", "t", "o", "i">>, <<"i", "n", "t">>>>, <<<<"t", "o", "_", "s", "t", "r", "i", "n", "g">>, <<"s", "t", "r">>>>, <<<<"r", "e", "a", "d", "_", "i", "n", "p", "u", "t">>, <<"i", "n", "p", "u", "t">>>>,
      <<<<"s", "i", "z", "e">>, <<"l", "e", "n">>>>, <<<<"l", "e", "n", "g", "t", "h">>, <<"l", "e", "n">>>>,
      <<<<"S", "y", "s", "t", "e", "m", ".", "o", "u", "t", ".", "p", "r", "i", "n", "t", "l", "n">>, <<"p", "r", "i", "n", "t">>>>, <<<<"S", "y", "s", "t", "e", "m", ".", "o", "u", "t", ".", "p", "r", "i", "n", "t">>, <<"p", "r", "i", "n", "t">>>>,
      <<<<"I", "n", "t", "e", "g", "e", "r", ".", "p", "a", "r", "s", "e", "I", "n", "t">>, <<"i", "n", "t">>>>, <<<<"D", "o", "u", "b", "l", "e", ".", "p", "a", "r", "s", "e", "D", "o", "u", "b", "l", "e">>, <<"f", "l", "o", "a", "t">>>>,
      <<<<"s", "c", "a", "n", "n", "e", "r", ".", "n", "e", "x", "t", "L", "i", "n", "e">>, <<"i", "n", "p", "u", "t">>>>, <<<<"s", "c", "a", "n", "n", "e", "r", ".", "n", "e", "x", "t", "I", "n", "t">>, <<"i", "n", "t", "(", "i", "n", "p", "u", "t", "(", ")", ")">>>>,
      <<<<"M", "a", "t", "h", ".", "m", "a", "x">>, <<"m", "a", "x">>>>, <<<<"M", "a", "t", "h", ".", "m", "i", "n">>, <<"m", "i", "n">>>>, <<<<"M", "a", "t", "h", ".", "a", "b", "s">>, <<"a", "b", "s">>>>,
      <<<<"M", "a", "t", "h", ".", "s", "q", "r", "t">>, <<"m", "a", "t", "h", ".", "s", "q", "r", "t">>>> }

Generated(g, code) == [g |-> g, code |-> code]

RECURSIVE py_visit(_, _)
RECURSIVE is_cout_stream(_)
RECURSIVE collect_stream_args(_)

\* [self.visit(arg) for arg in nodes]
CodeOfAll(nodes) == [k \in 1..Len(nodes) |-> py_visit(PythonGenerator, nodes[k]).code]

\* for statement in nodes: code = self.visit(statement); if code: self.emit(code)
RECURSIVE EmitAll(_, _)
EmitAll(g, nodes) ==
    IF nodes = <<>> THEN g
    ELSE LET r == py_visit(g, Head(nodes)) IN
         EmitAll(IF r.code # <<>> THEN emit(r.g, r.code) ELSE r.g, Tail(nodes))

\* An indented body, `pass` standing for an empty one.
EmitBody(g, nodes) ==
    dedent(IF nodes # <<>> THEN EmitAll(indent(g), nodes) ELSE emit(indent(g), <<"p", "a", "s", "s">>))

py_visit_function(g, node) ==
    LET params == Join([k \in 1..Len(node.parameters) |-> node.parameters[k][1]], <<",", " ">>)
        g1 == emit(g, <<"d", "e", "f", " ">> \o node.name \o <<"(">> \o params \o <<")", ":">>)
    IN  Generated(emit(EmitBody(g1, node.body), <<>>), <<>>)

py_visit_variable(g, node) ==
    IF node.initial_value # NoNode
    THEN Generated(emit(g, node.name \o <<" ", "=", " ">> \o py_visit(g, node.initial_value).code), <<>>)
    ELSE Generated(emit(g, node.name \o <<" ", "=", " ", "N", "o", "n", "e">>), <<>>)

py_visit_assignment(g, node) ==
    Generated(emit(g, node.target \o <<" ">> \o TextOf(node.operator) \o <<" ">>
                          \o py_visit(g, node.value).code), <<>>)

\* The elif loop of visit_if.
RECURSIVE EmitElifs(_, _)
EmitElifs(g, elif_blocks) ==
    IF elif_blocks = <<>> THEN g
    ELSE LET g1 == emit(g, <<"e", "l", "i", "f", " ">> \o py_visit(g, Head(elif_blocks)[1]).code \o <<":">>) IN
         EmitElifs(EmitBody(g1, Head(elif_blocks)[2]), Tail(elif_blocks))

py_visit_if(g, node) ==
    LET g1 == emit(g, <<"i", "f", " ">> \o py_visit(g, node.condition).code \o <<":">>)
        g2 == EmitElifs(EmitBody(g1, node.then_block), node.elif_blocks)
    IN  IF node.else_block # <<>>
        THEN Generated(dedent(EmitAll(indent(emit(g2, <<"e", "l", "s", "e", ":">>)), node.else_block)), <<>>)
        ELSE Generated(g2, <<>>)

py_visit_while(g, node) ==
    LET g1 == emit(g, <<"w", "h", "i", "l", "e", " ">> \o py_visit(g, node.condition).code \o <<":">>) IN
    Generated(EmitBody(g1, node.body), <<>>)

py_visit_for(g, node) ==
    LET g1 == emit(g, <<"f", "o", "r", " ">> \o node.variable \o <<" ", "i", "n", " ">>
                          \o py_visit(g, node.iterable).code \o <<":">>) IN
    Generated(EmitBody(g1, node.body), <<>>)

py_visit_return(g, node) ==
    IF node.value # NoNode
    THEN Generated(emit(g, <<"r", "e", "t", "u", "r", "n", " ">> \o py_visit(g, node.value).code), <<>>)
    ELSE Generated(emit(g, <<"r", "e", "t", "u", "r", "n">>), <<>>)

py_visit_call(g, node) ==
    LET args == Join(CodeOfAll(node.arguments), <<",", " ">>)
        func_name == IF \E m \in func_map : m[1] = node.function_name
                     THEN (CHOOSE m \in func_map : m[1] = node.function_name)[2]
                     ELSE node.function_name
    IN  IF node.function_name = <<"S", "y", "s", "t", "e", "m", ".", "o", "u", "t", ".", "p", "r", "i", "n", "t">>
        THEN Generated(g, <<"p", "r", "i", "n", "t", "(">> \o args \o <<",", " ", "e", "n", "d", "=", "'", "'", ")">>)
        ELSE Generated(g, func_name \o <<"(">> \o args \o <<")">>)

is_cout_stream(node) ==
    \/ node.node_type = "identifier" /\ node.name = <<"c", "o", "u", "t">>
    \/ node.node_type = "binary_op" /\ node.operator = "<<" /\ is_cout_stream(node.left)

collect_stream_args(node) ==
    IF node.node_type = "binary_op" /\ node.operator = "<<"
    THEN collect_stream_args(node.left) \o collect_stream_args(node.right)
    ELSE IF node.node_type = "identifier" /\ node.name = <<"c", "o", "u", "t">> THEN <<>>
    ELSE IF node.node_type = "identifier" /\ node.name = <<"e", "n", "d", "l">> THEN <<<<"'", "\\", "n", "'">>>>
    ELSE <<py_visit(PythonGenerator, node).code>>

py_visit_binary_op(g, node) ==
    IF node.operator = "<<" /\ is_cout_stream(node)
    THEN Generated(g, <<"p", "r", "i", "n", "t", "(">> \o Join(collect_stream_args(node), <<",", " ">>)
                          \o <<",", " ", "s", "e", "p", "=", "'", "'", ",", " ", "e", "n", "d", "=", "'", "'", ")">>)
    ELSE LET left == py_visit(g, node.left).code
             right == py_visit(g, node.right).code
             operator == CASE node.operator = "&&" -> <<"a", "n", "d">>
                           [] node.operator = "||" -> <<"o", "r">>
                           [] OTHER -> TextOf(node.operator)
         IN  IF operator = <<"+">>
             THEN Generated(g, left \o <<" ">> \o operator \o <<" ">> \o right)
             ELSE Generated(g, <<"(">> \o left \o <<" ">> \o operator \o <<" ">> \o right \o <<")">>)

py_visit_unary_op(g, node) ==
    LET operator == IF node.operator = "!" THEN <<"n", "o", "t", " ">> ELSE TextOf(node.operator) IN
    Generated(g, operator \o py_visit(g, node.operand).code)

py_visit_literal(g, node) ==
    Generated(g,
        CASE node.literal_type = "string" -> <<"'">> \o EscapeQuotes(node.value) \o <<"'">>
          [] node.literal_type = "bool" ->
                IF node.value \notin {<<>>, <<"F", "a", "l", "s", "e">>} THEN <<"T", "r", "u", "e">> ELSE <<"F", "a", "l", "s", "e">>
          [] node.literal_type = "void" -> <<"N", "o", "n", "e">>
          [] node.literal_type = "float" -> FloatText(node.value)
          [] OTHER -> node.value)

py_visit_identifier(g, node) == Generated(g, node.name)

py_visit(g, node) ==
    CASE node = NoNode -> Generated(g, <<>>)
      [] node.node_type = "function" -> py_visit_function(g, node)
      [] node.node_type = "variable" -> py_visit_variable(g, node)
      [] node.node_type = "assignment" -> py_visit_assignment(g, node)
      [] node.node_type = "if" -> py_visit_if(g, node)
      [] node.node_type = "while" -> py_visit_while(g, node)
      [] node.node_type = "for" -> py_visit_for(g, node)
      [] node.node_type = "return" -> py_visit_return(g, node)
      [] node.node_type = "call" -> py_visit_call(g, node)
      [] node.node_type = "binary_op" -> py_visit_binary_op(g, node)
      [] node.node_type = "unary_op" -> py_visit_unary_op(g, node)
      [] node.node_type = "literal" -> py_visit_literal(g, node)
      [] node.node_type = "identifier" -> py_visit_identifier(g, node)
      [] OTHER -> Generated(g, <<>>)

\* for node in nodes: self.visit(node)
RECURSIVE VisitEach(_, _)
VisitEach(g, nodes) ==
    IF nodes = <<>> THEN g ELSE VisitEach(py_visit(g, Head(nodes)).g, Tail(nodes))

\* BaseGenerator.generate
base_generate(ir_program) ==
    LET g == VisitEach(VisitEach(PythonGenerator, ir_program.globals), ir_program.functions)
    IN  Join(g.generated_code, <<"\n">>)

\* PythonGenerator.generate
py_generate(ir_program) ==
    LET code == base_generate(ir_program)
        has_main == \E k \in 1..Len(ir_program.functions) :
                        ir_program.functions[k].name = <<"m", "a", "i", "n">>
    IN  IF has_main
        THEN code \o <<"\n", "\n", "i", "f", " ", "_", "_", "n", "a", "m", "e", "_", "_", " ", "=", "=", " ", "\"", "_", "_", "m", "a", "i", "n", "_", "_", "\"", ":", "\n", " ", " ", " ", " ", "m", "a", "i", "n", "(", ")">>
        ELSE code

(***************************************************************************)
(* The python to python specification: translate(source, "python",         *)
(* "python"), one stage per step, and the caller translating the text it   *)
(* got once more.                                                          *)
(***************************************************************************)
Operands == {<<"a">>, <<"1">>}
BinaryOperators == {<<"+">>, <<"*">>, <<"<">>, <<"a", "n", "d">>}

Infix(left, operator, right) == left \o <<" ">> \o operator \o <<" ">> \o right
Parenthesized(text) == <<"(">> \o text \o <<")">>

FlatTexts == {Infix(l, op, r) : l \in Operands, op \in BinaryOperators, r \in Operands}

\* One operation in brackets as the right or the left operand of another.
NestedTexts ==
    {Infix(l, op, Parenthesized(Infix(<<"a">>, inner, <<"1">>))) :
        l \in Operands, op \in BinaryOperators, inner \in BinaryOperators}
        \cup {Infix(Parenthesized(Infix(<<"a">>, inner, <<"1">>)), op, r) :
                 inner \in BinaryOperators, op \in BinaryOperators, r \in Operands}

SimpleTexts == Operands \cup FlatTexts \cup {<<"n", "o", "t", " ", "a">>}

ExpressionTexts ==
    SimpleTexts \cup NestedTexts
        \cup {<<"n", "o", "t", " ", "1">>, <<"-", "a">>, <<"-", "1">>, <<"-", "(", "1", " ", "+", " ", "1", ")">>, <<"g", "(", "a", ")">>, <<"s", "i", "z", "e", "(", "a", ")">>,
              <<"T", "r", "u", "e">>, <<"'", "a", "'">>, <<"1", " ", "+", " ", "1", " ", "+", " ", "1">>, <<"1", " ", "*", " ", "1", " ", "*", " ", "1">>}

FunctionNames == {<<"g">>, <<"m", "a", "i", "n">>}

\* The programs of the specification: a function returning an expression,
\* and an expression in each kind of statement and at the top level.
Sources ==
    {<<"d", "e", "f", " ">> \o name \o <<"(", "a", ")", ":", "\n", " ", "r", "e", "t", "u", "r", "n", " ">> \o e \o <<"\n">> :
        name \in FunctionNames, e \in ExpressionTexts}
        \cup {<<"d", "e", "f", " ", "g", "(", "a", ")", ":", "\n", " ", "i", "f", " ">> \o e \o <<":", "\n", " ", " ", "r", "e", "t", "u", "r", "n", " ", "a", "\n", " ", "e", "l", "s", "e", ":", "\n", " ", " ", "r", "e", "t", "u", "r", "n", " ", "1", "\n">> :
                 e \in SimpleTexts}
        \cup {<<"d", "e", "f", " ", "g", "(", "a", ")", ":", "\n", " ", "i", "f", " ", "a", ":", "\n", " ", " ", "r", "e", "t", "u", "r", "n", " ", "1", "\n", " ", "e", "l", "i", "f", " ">> \o e \o <<":", "\n", " ", " ", "r", "e", "t", "u", "r", "n", " ", "a", "\n", " ", "r", "e", "t", "u", "r", "n", " ", "1", "\n">> :
                 e \in SimpleTexts}
        \cup {<<"d", "e", "f", " ", "g", "(", "a", ")", ":", "\n", " ", "x", " ", "=", " ">> \o e \o <<"\n", " ", "w", "h", "i", "l", "e", " ", "x", ":", "\n", " ", " ", "x", " ", "+", "=", " ", "1", "\n", " ", "r", "e", "t", "u", "r", "n", " ", "x", "\n">> :
                 e \in SimpleTexts}
        \cup {<<"d", "e", "f", " ", "g", "(", "a", ")", ":", "\n", " ", "f", "o", "r", " ", "i", " ", "i", "n", " ", "r", "a", "n", "g", "e", "(">> \o e \o <<")", ":", "\n", " ", " ", "a", " ", "=", " ", "i", "\n", " ", "r", "e", "t", "u", "r", "n", " ", "a", "\n">> :
                 e \in Operands \cup {<<"a", " ", "+", " ", "1">>}}
        \cup {<<"x", " ", "=", " ">> \o e \o <<"\n", "d", "e", "f", " ", "g", "(", "a", ")", ":", "\n", " ", "r", "e", "t", "u", "r", "n", " ", "x", "\n">> : e \in SimpleTexts}
        \cup {<<"x", " ", "=", " ", "1", "\n", "p", "r", "i", "n", "t", "(">> \o e \o <<")", "\n">> : e \in SimpleTexts}

TripInit ==
    /\ trip \in [source : Sources, pass : {1}, pc : {"lexer"}, tokens : {<<>>},
                  ast : {NoNode}, ir : {NoNode}, asts : {<<>>}, outputs : {<<>>},
                  error : {None}]
    /\ LexIdle /\ SymIdle /\ RunIdle /\ CompatIdle /\ CheckerIdle
    /\ EmitterIdle /\ ParsingIdle

\* Step 1: tokens = lexer_map[source_lang](source_code).tokenize()
TripLex ==
    /\ trip.pc = "lexer" /\ trip.error = None
    /\ LET Lexed(l) ==
               IF l.status = "raised" THEN [trip EXCEPT !.error = l.error]
               ELSE [trip EXCEPT !.tokens = l.tokens, !.pc = "parser"]
       IN  trip' = Lexed(tokenize(NewLexer(trip.source), "python"))
    /\ UNCHANGED <<LexVars, SymVars, RunVars, compat, checker, emitter, parsing>>

\* Step 2: ast = parser_map[source_lang](tokens).parse()
TripParse ==
    /\ trip.pc = "parser" /\ trip.error = None
    /\ LET Read(r) ==
               IF r.p.status = "raised" THEN [trip EXCEPT !.error = r.p.error]
               ELSE IF r.p.status = "diverges" THEN [trip EXCEPT !.error = "diverges"]
               ELSE [trip EXCEPT !.ast = r.node, !.asts = Append(@, r.node),
                                 !.pc = "checker"]
       IN  trip' = Read(parse(NewParser(trip.tokens)))
    /\ UNCHANGED <<LexVars, SymVars, RunVars, compat, checker, emitter, parsing>>

\* Step 3: TypeChecker(language=source_lang).check(ast); return None if invalid
TripCheck ==
    /\ trip.pc = "checker" /\ trip.error = None
    /\ LET Checked(c) ==
               IF c.errors # <<>> THEN [trip EXCEPT !.error = "Semantic Errors"]
               ELSE [trip EXCEPT !.pc = "ir_gen"]
       IN  trip' = Checked(VisitAll(TypeChecker("python"), trip.ast.statements))
    /\ UNCHANGED <<LexVars, SymVars, RunVars, compat, checker, emitter, parsing>>

\* Step 4: ir = IRGenerator(source_language=source_lang).generate(ast)
TripLower ==
    /\ trip.pc = "ir_gen" /\ trip.error = None
    /\ LET LoweredTo(g) ==
               IF g.status = "raised" THEN [trip EXCEPT !.error = g.error]
               ELSE [trip EXCEPT !.ir = g.ir_program, !.pc = "generator"]
       IN  trip' = LoweredTo(ir_generate(IRGenerator("python"), trip.ast))
    /\ UNCHANGED <<LexVars, SymVars, RunVars, compat, checker, emitter, parsing>>

\* Step 5: target_code = generator_map[target_lang]().generate(ir); return it
TripEmit ==
    /\ trip.pc = "generator" /\ trip.error = None
    /\ trip' = [trip EXCEPT !.outputs = Append(@, py_generate(trip.ir)), !.pc = "returned"]
    /\ UNCHANGED <<LexVars, SymVars, RunVars, compat, checker, emitter, parsing>>

\* The caller translates the text it got, python to python again.
TranslateAgain ==
    /\ trip.pc = "returned" /\ trip.pass = 1
    /\ trip' = [trip EXCEPT !.source = trip.outputs[1], !.pass = 2, !.pc = "lexer",
                            !.tokens = <<>>, !.ast = NoNode, !.ir = NoNode]
    /\ UNCHANGED <<LexVars, SymVars, RunVars, compat, checker, emitter, parsing>>

TripNext == TripLex \/ TripParse \/ TripCheck \/ TripLower \/ TripEmit \/ TranslateAgain

SpecTrip == TripInit /\ [][TripNext]_vars

(***************************************************************************)
(* codegen/cpp_generator.py.  The generator also carries the prompt that   *)
(* visit_call keeps in _current_input_prompt (None when the attribute is   *)
(* absent).                                                                *)
(***************************************************************************)
CppGenerator ==
    [target_language |-> "cpp", indent_level |-> 0, generated_code |-> <<>>,
     current_input_prompt |-> None]

INPUT_INT == <<"I", "N", "P", "U", "T", "_", "I", "N", "T">>
INPUT_STRING == <<"I", "N", "P", "U", "T", "_", "S", "T", "R", "I", "N", "G">>

generate_imports(g) ==
    emit(emit(emit(emit(g, <<"#", "i", "n", "c", "l", "u", "d", "e", " ", "<", "i", "o", "s", "t", "r", "e", "a", "m", ">">>), <<"#", "i", "n", "c", "l", "u", "d", "e", " ", "<", "s", "t", "r", "i", "n", "g", ">">>),
              <<"u", "s", "i", "n", "g", " ", "n", "a", "m", "e", "s", "p", "a", "c", "e", " ", "s", "t", "d", ";">>), <<>>)

cpp_map_type(ir_type) ==
    CASE ir_type = "int" -> <<"i", "n", "t">>
      [] ir_type = "float" -> <<"d", "o", "u", "b", "l", "e">>
      [] ir_type = "string" -> <<"s", "t", "r", "i", "n", "g">>
      [] ir_type = "bool" -> <<"b", "o", "o", "l">>
      [] ir_type = "void" -> <<"v", "o", "i", "d">>
      [] ir_type = "array" -> <<"v", "e", "c", "t", "o", "r", "<", "i", "n", "t", ">">>
      [] ir_type = "object" -> <<"v", "o", "i", "d", "*">>
      [] OTHER -> <<"a", "u", "t", "o">>

RECURSIVE cpp_visit(_, _)

\* for statement in nodes: code = self.visit(statement);
\* if code and code.strip(): self.emit(code + ";")
RECURSIVE CppEmitAll(_, _)
CppEmitted(r) == IF ~IsBlank(r.code) THEN emit(r.g, r.code \o <<";">>) ELSE r.g
CppEmitAll(g, nodes) ==
    IF nodes = <<>> THEN g ELSE CppEmitAll(CppEmitted(cpp_visit(g, Head(nodes))), Tail(nodes))

\* [self.visit(arg) for arg in nodes]: the generator after the visits with
\* the list of the codes.
RECURSIVE CppCodeOfAll(_, _, _)
CppCodeAppend(codes, r) == Generated(r.g, Append(codes, r.code))
CppCodeOfAll(g, nodes, codes) ==
    IF nodes = <<>> THEN Generated(g, codes)
    ELSE LET Rest(r) == CppCodeOfAll(r.g, Tail(nodes), r.code)
         IN  Rest(CppCodeAppend(codes, cpp_visit(g, Head(nodes))))

\* An indented block between the line that opens it and its closing brace.
CppBlock(g, nodes) == emit(dedent(CppEmitAll(indent(g), nodes)), <<"}">>)

HasValuedReturn(body) ==
    \E k \in 1..Len(body) : body[k].node_type = "return" /\ body[k].value # NoNode

CppParameters(parameters) ==
    LET kept == SelectSeq(parameters, LAMBDA param : param[1] # <<"s", "e", "l", "f">>) IN
    Join([k \in 1..Len(kept) |-> cpp_map_type(kept[k][2]) \o <<" ">> \o kept[k][1]], <<",", " ">>)

cpp_visit_function(g, node) ==
    LET return_type == IF node.return_type = "void" /\ HasValuedReturn(node.body)
                       THEN "any" ELSE node.return_type
        g1 == emit(g, cpp_map_type(return_type) \o <<" ">> \o node.name \o <<"(">>
                          \o CppParameters(node.parameters) \o <<")", " ", "{">>)
    IN  Generated(emit(CppBlock(g1, node.body), <<>>), <<>>)

CppDeclare(g, node, value) ==
    LET var_type == cpp_map_type(node.var_type)
        prompted == IF g.current_input_prompt # None
                    THEN [emit(g, <<"c", "o", "u", "t", " ", "<", "<", " ">> \o g.current_input_prompt \o <<";">>)
                            EXCEPT !.current_input_prompt = None]
                    ELSE g
    IN  CASE value = INPUT_INT ->
               emit(emit(prompted, var_type \o <<" ">> \o node.name \o <<";">>),
                    <<"c", "i", "n", " ", ">", ">", " ">> \o node.name \o <<";">>)
          [] value = INPUT_STRING ->
               emit(emit(prompted, var_type \o <<" ">> \o node.name \o <<";">>),
                    <<"g", "e", "t", "l", "i", "n", "e", "(", "c", "i", "n", ",", " ">> \o node.name \o <<")", ";">>)
          [] OTHER -> emit(g, var_type \o <<" ">> \o node.name \o <<" ", "=", " ">> \o value \o <<";">>)

cpp_visit_variable(g, node) ==
    IF node.initial_value # NoNode
    THEN LET Declared(r) == Generated(CppDeclare(r.g, node, r.code), <<>>)
         IN  Declared(cpp_visit(g, node.initial_value))
    ELSE Generated(emit(g, cpp_map_type(node.var_type) \o <<" ">> \o node.name \o <<";">>), <<>>)

cpp_visit_assignment(g, node) ==
    LET Assigned(r) == Generated(emit(r.g, node.target \o <<" ">> \o TextOf(node.operator)
                                              \o <<" ">> \o r.code \o <<";">>), <<>>)
    IN  Assigned(cpp_visit(g, node.value))

\* The elif loop of visit_if.
RECURSIVE CppElifs(_, _)
CppElifs(g, elif_blocks) ==
    IF elif_blocks = <<>> THEN g
    ELSE LET Opened(r) == emit(r.g, <<"e", "l", "s", "e", " ", "i", "f", " ", "(">> \o r.code \o <<")", " ", "{">>)
         IN  CppElifs(CppBlock(Opened(cpp_visit(g, Head(elif_blocks)[1])), Head(elif_blocks)[2]),
                      Tail(elif_blocks))

cpp_visit_if(g, node) ==
    LET Opened(r) == emit(r.g, <<"i", "f", " ", "(">> \o r.code \o <<")", " ", "{">>)
        WithElse(g2) == IF node.else_block # <<>>
                        THEN CppBlock(emit(g2, <<"e", "l", "s", "e", " ", "{">>), node.else_block)
                        ELSE g2
    IN  Generated(WithElse(CppElifs(CppBlock(Opened(cpp_visit(g, node.condition)), node.then_block),
                                    node.elif_blocks)), <<>>)

cpp_visit_while(g, node) ==
    LET Opened(r) == emit(r.g, <<"w", "h", "i", "l", "e", " ", "(">> \o r.code \o <<")", " ", "{">>)
    IN  Generated(CppBlock(Opened(cpp_visit(g, node.condition)), node.body), <<>>)

cpp_visit_for(g, node) ==
    LET Opened(r) == emit(r.g, <<"f", "o", "r", " ", "(", "a", "u", "t", "o", " ">> \o node.variable \o <<" ", ":", " ">> \o r.code \o <<")", " ", "{">>)
    IN  Generated(CppBlock(Opened(cpp_visit(g, node.iterable)), node.body), <<>>)

cpp_visit_return(g, node) ==
    IF node.value # NoNode
    THEN LET Returned(r) == Generated(emit(r.g, <<"r", "e", "t", "u", "r", "n", " ">> \o r.code \o <<";">>), <<>>)
         IN  Returned(cpp_visit(g, node.value))
    ELSE Generated(emit(g, <<"r", "e", "t", "u", "r", "n", ";">>), <<>>)

cpp_func_map ==
    { <<<<"p", "r", "i", "n", "t">>, <<"c", "o", "u", "t">>>>, <<<<"l", "e", "n">>, <<"s", "i", "z", "e">>>>, <<<<"s", "t", "r">>, <<"t", "o", "_", "s", "t", "r", "i", "n", "g">>>>,
      <<<<"f", "l", "o", "a", "t">>, <<"s", "t", "o", "f">>>> }

EndsWith(text, suffix) ==
    Len(text) >= Len(suffix) /\ SubSeq(text, Len(text) - Len(suffix) + 1, Len(text)) = suffix

CppPlainCall(node, r) ==
    LET args == Join(r.code, <<",", " ">>)
        func_name == IF \E m \in cpp_func_map : m[1] = node.function_name
                     THEN (CHOOSE m \in cpp_func_map : m[1] = node.function_name)[2]
                     ELSE node.function_name
    IN  IF \E k \in 1..Len(node.function_name) : node.function_name[k] = "."
        THEN Generated(r.g, node.function_name \o <<"(">> \o args \o <<")">>)
        ELSE IF func_name = <<"c", "o", "u", "t">>
        THEN Generated(r.g, IF args # <<>> THEN <<"c", "o", "u", "t", " ", "<", "<", " ">> \o args \o <<" ", "<", "<", " ", "e", "n", "d", "l">>
                                           ELSE <<"c", "o", "u", "t", " ", "<", "<", " ", "e", "n", "d", "l">>)
        ELSE IF node.function_name = <<"i", "n", "p", "u", "t">>
        THEN Generated(IF args # <<>> THEN [r.g EXCEPT !.current_input_prompt = args] ELSE r.g,
                       INPUT_STRING)
        ELSE Generated(r.g, func_name \o <<"(">> \o args \o <<")">>)

CppIndexed(node, r) ==
    Generated(r.g, SubSeq(node.function_name, 1, Len(node.function_name) - 2)
                       \o <<"[">> \o r.code \o <<"]">>)

CppPrompted(r) == Generated([r.g EXCEPT !.current_input_prompt = r.code], INPUT_INT)

cpp_visit_call(g, node) ==
    CASE EndsWith(node.function_name, <<"[", "]">>) ->
            IF node.arguments # <<>>
            THEN CppIndexed(node, cpp_visit(g, node.arguments[1]))
            ELSE Generated(g, node.function_name)
      [] /\ ~EndsWith(node.function_name, <<"[", "]">>)
         /\ \A k \in 1..Len(node.function_name) : node.function_name[k] # "."
         /\ node.function_name = <<"i", "n", "t">> /\ Len(node.arguments) = 1
         /\ node.arguments[1].node_type = "call"
         /\ node.arguments[1].function_name = <<"i", "n", "p", "u", "t">> ->
            IF node.arguments[1].arguments # <<>>
            THEN CppPrompted(cpp_visit(g, node.arguments[1].arguments[1]))
            ELSE Generated(g, INPUT_INT)
      [] OTHER -> CppPlainCall(node, CppCodeOfAll(g, node.arguments, <<>>))

CppOperator(operator) ==
    CASE operator = "and" -> <<"&", "&">>
      [] operator = "or" -> <<"|", "|">>
      [] operator = "//" -> <<"/">>
      [] OTHER -> TextOf(operator)

cpp_visit_binary_op(g, node) ==
    LET Joined(l, r) == Generated(r.g, <<"(">> \o l.code \o <<" ">> \o CppOperator(node.operator)
                                          \o <<" ">> \o r.code \o <<")">>)
        Right(l) == Joined(l, cpp_visit(l.g, node.right))
    IN  Right(cpp_visit(g, node.left))

cpp_visit_unary_op(g, node) ==
    LET Applied(r) == Generated(r.g, (IF node.operator = "not" THEN <<"!">> ELSE TextOf(node.operator))
                                         \o r.code)
    IN  Applied(cpp_visit(g, node.operand))

\* str(value).replace('"', '\\"')
RECURSIVE EscapeDoubleQuotes(_)
EscapeDoubleQuotes(text) ==
    IF text = <<>> THEN <<>>
    ELSE (IF Head(text) = "\"" THEN <<"\\", "\"">> ELSE <<Head(text)>>)
             \o EscapeDoubleQuotes(Tail(text))

cpp_visit_literal(g, node) ==
    Generated(g,
        CASE node.literal_type = "string" -> <<"\"">> \o EscapeDoubleQuotes(node.value) \o <<"\"">>
          [] node.literal_type = "bool" ->
                IF node.value \notin {<<>>, <<"F", "a", "l", "s", "e">>} THEN <<"t", "r", "u", "e">> ELSE <<"f", "a", "l", "s", "e">>
          [] node.literal_type = "void" -> <<"n", "u", "l", "l", "p", "t", "r">>
          [] node.literal_type = "float" -> FloatText(node.value)
          [] OTHER -> node.value)

cpp_visit_identifier(g, node) == Generated(g, node.name)

cpp_visit(g, node) ==
    CASE node = NoNode -> Generated(g, <<>>)
      [] node.node_type = "function" -> cpp_visit_function(g, node)
      [] node.node_type = "variable" -> cpp_visit_variable(g, node)
      [] node.node_type = "assignment" -> cpp_visit_assignment(g, node)
      [] node.node_type = "if" -> cpp_visit_if(g, node)
      [] node.node_type = "while" -> cpp_visit_while(g, node)
      [] node.node_type = "for" -> cpp_visit_for(g, node)
      [] node.node_type = "return" -> cpp_visit_return(g, node)
      [] node.node_type = "call" -> cpp_visit_call(g, node)
      [] node.node_type = "binary_op" -> cpp_visit_binary_op(g, node)
      [] node.node_type = "unary_op" -> cpp_visit_unary_op(g, node)
      [] node.node_type = "literal" -> cpp_visit_literal(g, node)
      [] node.node_type = "identifier" -> cpp_visit_identifier(g, node)
      [] OTHER -> Generated(g, <<>>)

\* for node in nodes: self.visit(node)
RECURSIVE CppVisitEach(_, _)
CppVisitEach(g, nodes) ==
    IF nodes = <<>> THEN g ELSE CppVisitEach(cpp_visit(g, Head(nodes)).g, Tail(nodes))

\* BaseGenerator.generate of a CppGenerator: imports, globals, functions.
cpp_generate(ir_program) ==
    Join(CppVisitEach(CppVisitEach(generate_imports(CppGenerator), ir_program.globals),
                      ir_program.functions).generated_code, <<"\n">>)

(***************************************************************************)
(* codegen/java_generator.py, generate.  After visiting the functions it   *)
(* reads ir_program.main_body, an attribute IRProgram (ir/ir_nodes.py)     *)
(* does not have, so every call ends in AttributeError and the text built  *)
(* so far is lost.                                                         *)
(***************************************************************************)
java_generate(ir_program) == [status |-> "raised", error |-> "AttributeError", code |-> <<>>]

(***************************************************************************)
(* Lowering and emission of one python AST for one target language:        *)
(* IRGenerator('python').generate(ast), then generator.generate(ir), as    *)
(* test_codegen.py and translate run them.                                 *)
(***************************************************************************)
NameA == <<"a">>
NameB == <<"b">>
result == <<"r", "e", "s", "u", "l", "t">>
add == <<"a", "d", "d">>

Arithmetic == {"+", "-", "*"}

\* a + b and the like: arithmetic on unannotated parameters and integers.
Sums ==
    {BinaryOp(l, op, r) : l \in {Identifier(NameA), Identifier(NameB), One},
                          op \in Arithmetic,
                          r \in {Identifier(NameA), Identifier(NameB), One}}

\* def NAME(a, b): result = E; return result
FunctionPrograms ==
    {Program(<<FunctionDef(name, Untyped(<<NameA, NameB>>), None,
                           <<Assignment(result, e, "="), Return(Identifier(result))>>)>>) :
        name \in {add, factorial}, e \in Sums}

\* Statements a script has at its top level besides declarations.
TopLevelStatements ==
    {ExpressionStatement(FunctionCall(print, <<e>>)) : e \in {One, Identifier(NameX)}}
        \cup {Assignment(NameX, e, op) : e \in {One, Identifier(NameX)}, op \in {"=", "+="}}
        \cup {IfStatement(Identifier(NameX), <<ExpressionStatement(FunctionCall(print, <<One>>))>>,
                          <<>>, <<>>),
              WhileLoop(Identifier(NameX), <<Assignment(NameX, One, "=")>>),
              ForLoop(NameI, Identifier(NameX),
                      <<ExpressionStatement(FunctionCall(print, <<Identifier(NameI)>>))>>)}

\* x = 1 first, or a function first, or nothing, and then one statement.
ScriptPrograms ==
    {Program(before \o <<s>>) :
        before \in {<<>>, <<Assignment(NameX, One, "=")>>,
                    <<FunctionDef(factorial, Untyped(<<NameN>>), None, <<ReturnOne>>)>>},
        s \in TopLevelStatements}

EmitterPrograms == FunctionPrograms \cup ScriptPrograms

EmitterInit ==
    /\ emitter \in [ast : EmitterPrograms, target : Languages, pc : {"ir_gen"},
                    ir : {NoNode}, output : {None}, error : {None}]
    /\ LexIdle /\ SymIdle /\ RunIdle /\ CompatIdle /\ CheckerIdle
    /\ TripIdle /\ ParsingIdle

\* ir = IRGenerator(source_language='python').generate(ast)
EmitterLower ==
    /\ emitter.pc = "ir_gen"
    /\ LET Lowering(g) ==
               IF g.status = "raised"
               THEN [emitter EXCEPT !.error = g.error, !.pc = "raised"]
               ELSE [emitter EXCEPT !.ir = g.ir_program, !.pc = "generator"]
       IN  emitter' = Lowering(ir_generate(IRGenerator("python"), emitter.ast))
    /\ UNCHANGED <<LexVars, SymVars, RunVars, compat, checker, trip, parsing>>

\* code = generator_map[target]().generate(ir)
EmitterGenerate ==
    /\ emitter.pc = "generator"
    /\ emitter' =
         CASE emitter.target = "python" ->
                 [emitter EXCEPT !.output = py_generate(emitter.ir), !.pc = "returned"]
           [] emitter.target = "cpp" ->
                 [emitter EXCEPT !.output = cpp_generate(emitter.ir), !.pc = "returned"]
           [] emitter.target = "java" ->
                 [emitter EXCEPT !.error = java_generate(emitter.ir).error, !.pc = "raised"]
    /\ UNCHANGED <<LexVars, SymVars, RunVars, compat, checker, trip, parsing>>

EmitterNext == EmitterLower \/ EmitterGenerate

SpecEmitter == EmitterInit /\ [][EmitterNext]_vars

\* piece occurs in text
Contains(text, piece) ==
    \E k \in 0..(Len(text) - Len(piece)) : SubSeq(text, k + 1, k + Len(piece)) = piece

NumericSpellings == {<<"i", "n", "t">>, <<"l", "o", "n", "g">>, <<"f", "l", "o", "a", "t">>, <<"d", "o", "u", "b", "l", "e">>}

\* C11: when a python function with unannotated parameters whose body
\* first-assigns `result` an arithmetic expression of them and returns it
\* has been emitted as C++, the text holds a function of the same name
\* declared with a numeric return type, and declares `result` with the
\* integer spelling `int`, the inferred type of the initializer.
C11_TypedResult ==
    (/\ emitter.pc = "returned" /\ emitter.target = "cpp"
     /\ emitter.ast \in FunctionPrograms)
    => /\ \E t \in NumericSpellings :
            Contains(emitter.output, <<"\n">> \o t \o <<" ">> \o emitter.ast.statements[1].name \o <<"(">>)
       /\ Contains(emitter.output, <<" ", " ", " ", " ", "i", "n", "t", " ", "r", "e", "s", "u", "l", "t", " ", "=", " ">>)

\* The IR nodes generate's loop gets for the top-level statements of ast, and
\* those of them it sends to main_body: all but functions, classes and variables.
LoweredStatements(ast) == LowerAll(IRGenerator("python"), ast.statements, <<>>).node
MainBody(ast) ==
    SelectSeq(LoweredStatements(ast),
              LAMBDA node : node.node_type \notin {"function", "class", "variable"})

\* The lines the target's emitter writes for one statement.
StatementLines(target, node) ==
    CASE target = "python" -> EmitAll(PythonGenerator, <<node>>).generated_code
      [] target = "cpp" -> CppEmitAll(CppGenerator, <<node>>).generated_code
      [] OTHER -> <<>>

EntryPoint(target) ==
    CASE target = "cpp" -> <<"i", "n", "t", " ", "m", "a", "i", "n", "(", ")", " ", "{">>
      [] target = "java" -> <<"p", "u", "b", "l", "i", "c", " ", "s", "t", "a", "t", "i", "c", " ", "v", "o", "i", "d", " ", "m", "a", "i", "n", "(">>
      [] OTHER -> <<>>

\* C14: a program with top-level statements that lowering places in
\* main_body is translated without failure for every target, and the text
\* returned holds every line the target's emitter writes for each of those
\* statements, and for java and C++ the header of an explicit entry point.
C14_MainBodyEmitted ==
    MainBody(emitter.ast) # <<>> =>
        /\ emitter.pc # "raised"
        /\ emitter.pc = "returned" =>
             /\ Contains(emitter.output, EntryPoint(emitter.target))
             /\ \A k \in 1..Len(MainBody(emitter.ast)) :
                  LET lines == StatementLines(emitter.target, MainBody(emitter.ast)[k]) IN
                  \A n \in 1..Len(lines) : Contains(emitter.output, lines[n])

\* C20: in every reachable state of a SymbolTable its scope list is a stack
\* rooted at the global scope: the first scope is the global one, every
\* other scope is the child of the one before it, and the last scope of the
\* list is current_scope (a scope that was exited is no longer in the list).
C20_ScopeStack ==
    /\ symtab.scopes[1].name = "global" /\ symtab.scopes[1].parent = 0
    /\ symtab.global_scope = 1
    /\ \A i \in 2..Len(symtab.scopes) : symtab.scopes[i].parent = i - 1
    /\ symtab.current_scope = Len(symtab.scopes)

\* visit_functiondef at the point where the walk of the body starts: the
\* function is defined, its scope entered and its parameters defined.
FunctionEntered(c, node) ==
    [c EXCEPT !.symbol_table =
                  DefineParameters(enter_scope(define(c.symbol_table, FunctionSymbol(node)),
                                               "function"), node.parameters),
              !.current_function = FunctionSymbol(node)]

\* The errors the visit of one statement adds, whatever errors are recorded
\* already.
StatementErrors(c, node) == visit([c EXCEPT !.errors = <<>>], node).tc.errors

\* The errors of the statements of a body, each visited in the state the
\* statements before it leave, in the order of the statements.
RECURSIVE BodyErrors(_, _)
BodyErrors(c, nodes) ==
    IF nodes = <<>> THEN <<>>
    ELSE StatementErrors(c, Head(nodes)) \o BodyErrors(visit(c, Head(nodes)).tc, Tail(nodes))

\* The same for the statements of a program, the body of a function that
\* is visited taken statement by statement.
RECURSIVE WalkErrors(_, _)
WalkErrors(c, nodes) ==
    IF nodes = <<>> THEN <<>>
    ELSE (IF /\ Head(nodes).node_type = "FunctionDef"
             /\ ~is_defined(c.symbol_table, Head(nodes).name, TRUE)
          THEN BodyErrors(FunctionEntered(c, Head(nodes)), Head(nodes).body)
          ELSE StatementErrors(c, Head(nodes)))
         \o WalkErrors(visit(c, Head(nodes)).tc, Tail(nodes))

\* The statements of a list that add an error when the walk reaches them.
RECURSIVE Erroneous(_, _)
Erroneous(c, nodes) ==
    IF nodes = <<>> THEN {}
    ELSE (IF StatementErrors(c, Head(nodes)) # <<>> THEN {Len(nodes)} ELSE {})
         \cup Erroneous(visit(c, Head(nodes)).tc, Tail(nodes))

\* C12: an error recorded while a statement is visited does not stop the
\* walk.  When check returns, every top-level statement has been visited
\* and the error list is, in visit order, the errors of every statement of
\* the program and of every statement of a visited function body, each as
\* it is reported in the state the statements before it leave.
C12_WalkContinues ==
    checker.returned =>
        /\ checker.next = Len(checker.ast.statements) + 1
        /\ checker.tc.errors = WalkErrors(TypeChecker("python"), checker.ast.statements)
        /\ checker.is_valid = (checker.tc.errors = <<>>)

\* C12 witness: check has returned on a function whose body has two
\* statements that each add an error, and both errors are in the list.
C12_Witness ==
    /\ checker.returned
    /\ Len(checker.ast.statements) = 1
    /\ checker.ast.statements[1].node_type = "FunctionDef"
    /\ Cardinality(Erroneous(FunctionEntered(TypeChecker("python"), checker.ast.statements[1]),
                             checker.ast.statements[1].body)) = 2
    /\ Len(checker.tc.errors) = 2

(***************************************************************************)
(* The visitors that define names, one visit per step, on a checker of any *)
(* of the three languages.  A function definition is visited whole, or its *)
(* visit is taken in two steps, up to the start of the body and from the   *)
(* end of the body, with the statements in between as steps of their own.  *)
(* `last` keeps the node of the latest step and the checker before it.     *)
(***************************************************************************)
MaxSteps == 3       \* most visits made on one checker

ScopeNames == {NameX, factorial}

ScopeDecls ==
    {VariableDecl(name, "int", NoNode) : name \in ScopeNames}
        \cup {VariableDecl(name, None, Literal(<<"s">>, "string")) : name \in ScopeNames}

ScopeAssignments ==
    {Assignment(target, value, "=") : target \in ScopeNames, value \in {One, Identifier(NameX)}}

ScopeLoops == {ForLoop(variable, One, <<>>) : variable \in ScopeNames}

ScopeFunctions ==
    {FunctionDef(name, Untyped(parameters), None, body) :
        name \in ScopeNames,
        parameters \in {<<>>, <<NameX>>, <<NameX, NameX>>},
        body \in {<<>>, <<Assignment(NameX, One, "=")>>}}

NoStep == [node |-> NoNode, before |-> None, entered |-> FALSE]

ScopesInit ==
    /\ checker \in [tc : {TypeChecker(lang) : lang \in Languages}, steps : {0}, last : {NoStep}]
    /\ LexIdle /\ SymIdle /\ RunIdle /\ CompatIdle /\ PipeIdle

\* The checker after self.visit(node).
Visited(node) ==
    [tc |-> visit(checker.tc, node).tc, steps |-> checker.steps + 1,
     last |-> [node |-> node, before |-> checker.tc, entered |-> FALSE]]

ScopeDeclare ==
    \E node \in ScopeDecls :
        /\ checker.steps < MaxSteps
        /\ checker' = Visited(node)
        /\ UNCHANGED <<LexVars, SymVars, RunVars, compat, PipeVars>>

ScopeAssign ==
    \E node \in ScopeAssignments :
        /\ checker.steps < MaxSteps
        /\ checker' = Visited(node)
        /\ UNCHANGED <<LexVars, SymVars, RunVars, compat, PipeVars>>

ScopeLoop ==
    \E node \in ScopeLoops :
        /\ checker.steps < MaxSteps
        /\ checker' = Visited(node)
        /\ UNCHANGED <<LexVars, SymVars, RunVars, compat, PipeVars>>

ScopeFunction ==
    \E node \in ScopeFunctions :
        /\ checker.steps < MaxSteps
        /\ checker' = Visited(node)
        /\ UNCHANGED <<LexVars, SymVars, RunVars, compat, PipeVars>>

\* visit_functiondef of a name not yet defined, up to the start of its body
ScopeEnter ==
    \E node \in ScopeFunctions :
        /\ checker.steps < MaxSteps
        /\ ~is_defined(checker.tc.symbol_table, node.name, TRUE)
        /\ checker' = [tc |-> FunctionEntered(checker.tc, node), steps |-> checker.steps + 1,
                       last |-> [node |-> node, before |-> checker.tc, entered |-> TRUE]]
        /\ UNCHANGED <<LexVars, SymVars, RunVars, compat, PipeVars>>

\* visit_functiondef from the end of the body: exit_scope, current_function = None
ScopeLeave ==
    /\ checker.steps < MaxSteps
    /\ checker.tc.symbol_table.current_scope # 1
    /\ checker' = [tc |-> [checker.tc EXCEPT !.symbol_table = exit_scope(@),
                                             !.current_function = NoSymbol],
                   steps |-> checker.steps + 1, last |-> NoStep]
    /\ UNCHANGED <<LexVars, SymVars, RunVars, compat, PipeVars>>

ScopesNext ==
    ScopeDeclare \/ ScopeAssign \/ ScopeLoop \/ ScopeFunction \/ ScopeEnter \/ ScopeLeave

SpecScopes == ScopesInit /\ [][ScopesNext]_vars

\* The name the node of a step defines in the scope that is current when
\* its visit starts: of a function, a variable declaration or a for loop.
DefinedName(node) ==
    CASE node.node_type = "FunctionDef" -> node.name
      [] node.node_type = "VariableDecl" -> node.name
      [] node.node_type = "ForLoop" -> node.variable
      [] OTHER -> <<>>

\* A parameter list naming one parameter twice.
RepeatsParameter(node) ==
    /\ node.node_type = "FunctionDef"
    /\ \E i, j \in 1..Len(node.parameters) :
          i # j /\ node.parameters[i][1] = node.parameters[j][1]

\* C18: a name is defined at most once per scope.  When the latest step
\* visited a function definition, a variable declaration or a for loop whose
\* name was already defined in the scope then current, an error was recorded
\* and the symbol of the name in that scope is the one from before; when it
\* visited a function whose parameter list repeats a name, an error was
\* recorded.
C18_DefinedOnce ==
    LET node == checker.last.node
        before == checker.last.before
    IN  /\ (/\ DefinedName(node) # <<>>
            /\ is_defined(before.symbol_table, DefinedName(node), TRUE))
           => /\ Len(checker.tc.errors) > Len(before.errors)
              /\ lookup(checker.tc.symbol_table, DefinedName(node), TRUE)
                    = lookup(before.symbol_table, DefinedName(node), TRUE)
        /\ (/\ RepeatsParameter(node)
            /\ ~is_defined(before.symbol_table, node.name, TRUE))
           => Len(checker.tc.errors) > Len(before.errors)

\* C19: when the latest step visited an assignment, then (a) if its target
\* was visible from the current scope, the symbol table is as before; (b) if
\* it was not and the language is python, the target is now a variable of
\* the current scope, the other scopes are as before, and the only errors
\* added are those of the value; (c) if it was not and the language is java
\* or C++, one 'not defined' error naming the target was added and the
\* symbol table is as before.
C19_AssignmentDefines ==
    LET node == checker.last.node
        before == checker.last.before
        after == checker.tc
        current == before.symbol_table.current_scope
    IN  node.node_type = "Assignment" =>
          IF lookup(before.symbol_table, node.target, FALSE) # NoSymbol
          THEN after.symbol_table = before.symbol_table
          ELSE IF before.language = "python"
          THEN /\ lookup(after.symbol_table, node.target, TRUE).kind = "variable"
               /\ after.symbol_table.current_scope = current
               /\ \A i \in 1..Len(before.symbol_table.scopes) :
                     i # current => after.symbol_table.scopes[i] = before.symbol_table.scopes[i]
               /\ DOMAIN after.symbol_table.scopes[current].symbols
                     = DOMAIN before.symbol_table.scopes[current].symbols \cup {node.target}
               /\ after.errors = visit(before, node.value).tc.errors
          ELSE /\ after.errors =
                     Append(before.errors, [message |-> "Variable '{name}' is not defined",
                                            name |-> node.target, detail |-> <<>>])
               /\ after.symbol_table = before.symbol_table

\* C19 witness: inside a function scope an assignment was visited whose
\* target is defined in the global scope only, and the function scope has
\* no symbol of that name.
C19_Witness ==
    /\ checker.last.node.node_type = "Assignment"
    /\ checker.tc.symbol_table.current_scope > 1
    /\ lookup(checker.last.before.symbol_table, checker.last.node.target, TRUE) = NoSymbol
    /\ checker.last.node.target \in DOMAIN checker.tc.symbol_table.scopes[1].symbols
    /\ lookup(checker.tc.symbol_table, checker.last.node.target, TRUE) = NoSymbol

\* The line and the column of the k-th character of a text: lines are
\* counted from 1 and end with their newline, columns are counted from 1.
LineOf(text, k) == 1 + Cardinality({i \in 1..(k - 1) : text[i] = "\n"})
ColumnOf(text, k) ==
    LET newlines == {i \in 1..(k - 1) : text[i] = "\n"} IN
    IF newlines = {} THEN k ELSE k - (CHOOSE i \in newlines : \A j \in newlines : j <= i)

\* The characters the spelling of a token can begin with; none for the
\* tokens that stand for no text (INDENT, DEDENT, EOF).
Begins(t) ==
    CASE t.type \in {"INDENT", "DEDENT", "EOF"} -> {}
      [] t.type = "STRING" -> {"\"", "'"}
      [] t.type = "F_STRING" -> {"f", "F"}
      [] t.type \in {"INTEGER", "FLOAT"} -> Digits \cup {"."}
      [] OTHER -> {t.value[1]}

\* C15: every token that stands for text carries the line and the column
\* of its first character: the character of the source at the token's line
\* and column is one its spelling begins with.  Lines go up after each
\* newline and columns restart at 1 there.
C15_TokenPositions ==
    \A n \in 1..Len(lx.tokens) :
        LET t == lx.tokens[n] IN
        Begins(t) # {} =>
            \E k \in 1..Len(lx.source_code) :
                /\ LineOf(lx.source_code, k) = t.line
                /\ ColumnOf(lx.source_code, k) = t.column
                /\ lx.source_code[k] \in Begins(t)

\* The lines of a text, each with its newline.
RECURSIVE LinesOf(_)
LinesOf(text) ==
    IF text = <<>> THEN <<>>
    ELSE LET ends == {k \in 1..Len(text) : text[k] = "\n"} \cup {Len(text)}
             end == CHOOSE k \in ends : \A j \in ends : k <= j
         IN  <<SubSeq(text, 1, end)>> \o LinesOf(SubSeq(text, end + 1, Len(text)))

\* A line that is empty, holds only spaces and tabs, or holds only a comment.
BlankOrComment(line) ==
    \E k \in 1..Len(line) :
        /\ line[k] \in {"\n", "#"}
        /\ \A j \in 1..(k - 1) : line[j] \in {" ", "\t"}

\* The text without its blank and comment-only lines.
CodeLines(text) == Concat(SelectSeq(LinesOf(text), LAMBDA line : ~BlankOrComment(line)))

\* The INDENT and DEDENT tokens of a token list, in order, by type and width.
IndentTokens(tokens) ==
    LET kept == SelectSeq(tokens, LAMBDA t : t.type \in {"INDENT", "DEDENT"})
    IN  [k \in 1..Len(kept) |-> <<kept[k].type, kept[k].value>>]

\* C16: blank lines and comment-only lines, whatever their indentation, do
\* not touch the indent stack and emit no INDENT or DEDENT: when the python
\* lexer returns on a text of indented lines, its INDENT and DEDENT tokens
\* are those it emits for the text without the blank and comment-only lines.
C16_BlankLinesIgnored ==
    (language = "python" /\ lx.status = "returned" /\ lx.source_code \in IndentedTexts) =>
        IndentTokens(lx.tokens)
            = IndentTokens(tokenize(NewLexer(CodeLines(lx.source_code)), "python").tokens)

(***************************************************************************)
(* parser/java_parser.py: the parser object with its current_token field,  *)
(* which is_method_declaration assigns directly, and the two methods that  *)
(* work on tokens alone.                                                   *)
(***************************************************************************)
JavaParser(tokens) ==
    [tokens |-> tokens, position |-> 0,
     current_token |-> IF tokens # <<>> THEN tokens[1] ELSE NoToken,
     status |-> "ok", error |-> None]

\* BaseParser.advance
java_advance(p) ==
    [p EXCEPT !.position = @ + 1,
              !.current_token = IF p.position + 1 < Len(p.tokens)
                                THEN p.tokens[p.position + 2] ELSE NoToken]

\* BaseParser.expect and consume, of a token type
java_expect(p, token_type) ==
    IF p.current_token.type = token_type THEN java_advance(p)
    ELSE [p EXCEPT !.status = "raised", !.error = "ParseError"]

java_consume(p, token_type) ==
    IF p.current_token.type = token_type THEN java_advance(p) ELSE p

Modifiers == {<<"p", "u", "b", "l", "i", "c">>, <<"p", "r", "i", "v", "a", "t", "e">>, <<"p", "r", "o", "t", "e", "c", "t", "e", "d">>, <<"s", "t", "a", "t", "i", "c">>}

\* while self.current_token and self.current_token.value in [modifiers]: self.advance()
RECURSIVE SkipModifiers(_)
SkipModifiers(p) ==
    IF /\ p.current_token # NoToken
       /\ p.current_token.value # None
       /\ p.current_token.value \in Modifiers
    THEN SkipModifiers(java_advance(p)) ELSE p

\* self.position = saved_pos; self.current_token = self.tokens[self.position]
Restore(p, saved_pos) ==
    IF saved_pos < Len(p.tokens)
    THEN [p EXCEPT !.position = saved_pos, !.current_token = p.tokens[saved_pos + 1]]
    ELSE [p EXCEPT !.position = saved_pos, !.status = "raised", !.error = "IndexError"]

\* is_method_declaration that returns without putting the position back.
is_method_declaration_NoRestore(p) ==
    LET p1 == SkipModifiers(p)
        p2 == java_advance(p1)
        p3 == java_advance(p2)
    IN  IF p1.current_token.type = "KEYWORD" /\ p2.current_token.type = "IDENTIFIER"
        THEN [p |-> p3, result |-> p3.current_token.type = "LPAREN"]
        ELSE [p |-> p1, result |-> FALSE]

\* is_method_declaration: the parser after the call and the value returned.
is_method_declaration(p) ==
    LET p1 == SkipModifiers(p)
        p2 == java_advance(p1)
        p3 == java_advance(p2)
    IN  IF p1.current_token.type = "KEYWORD" /\ p2.current_token.type = "IDENTIFIER"
        THEN [p |-> Restore(p3, p.position), result |-> p3.current_token.type = "LPAREN"]
        ELSE [p |-> Restore(IF p1.current_token.type = "KEYWORD" THEN p2 ELSE p1, p.position),
              result |-> FALSE]

\* parse_typed_parameters: the loop, with the parameters read so far.  A
\* pass that finds a token that is neither `)` nor a keyword changes
\* nothing, and the loop runs on the same token for ever.
RECURSIVE TypedParametersLoop(_, _)
TypedParametersLoop(p, parameters) ==
    IF p.current_token = NoToken \/ p.current_token.type = "RPAREN" THEN Parsed(p, parameters)
    ELSE IF p.current_token.type # "KEYWORD" THEN Parsed(Diverge(p), parameters)
    ELSE LET p1 == java_expect(java_advance(p), "IDENTIFIER")
             read == Append(parameters, <<java_advance(p).current_token.value,
                                           p.current_token.value>>)
         IN  IF p1.status # "ok" THEN Parsed(p1, parameters)
             ELSE IF p1.current_token.type = "COMMA"
             THEN TypedParametersLoop(java_advance(p1), read)
             ELSE Parsed(p1, read)

parse_typed_parameters(p) == TypedParametersLoop(p, <<>>)

(***************************************************************************)
(* Parsers at work on token lists: PythonParser(tokens).parse() on the     *)
(* tokens of a function definition whose parameter list and block end are  *)
(* left open, and a JavaParser that has consumed some tokens and is asked   *)
(* is_method_declaration or parse_typed_parameters.                        *)
(***************************************************************************)
MaxParams == 2      \* most tokens between the parentheses of the python function
MaxTokens == 4      \* most tokens of a java token list before its EOF

Tok(type, value) == Token(type, value, 1, 1)
EOFToken == Tok("EOF", None)

ParameterTokens ==
    {Tok("IDENTIFIER", NameA), Tok("INTEGER", <<"1">>), Tok("COMMA", <<",">>),
     Tok("COLON", <<":">>), Tok("MULTIPLY", <<"*">>)}

\* def g( ... ): NEWLINE INDENT return a NEWLINE [DEDENT] EOF
PythonTokenLists ==
    {<<Tok("KEYWORD", <<"d", "e", "f">>), Tok("IDENTIFIER", NameG), Tok("LPAREN", <<"(">>)>>
        \o parameters
        \o <<Tok("RPAREN", <<")">>), Tok("COLON", <<":">>), Tok("NEWLINE", <<"\n">>),
             Tok("INDENT", 1), Tok("KEYWORD", <<"r", "e", "t", "u", "r", "n">>), Tok("IDENTIFIER", NameA),
             Tok("NEWLINE", <<"\n">>)>>
        \o closing \o <<EOFToken>> :
        parameters \in SeqsUpTo(ParameterTokens, MaxParams),
        closing \in {<<Tok("DEDENT", 0)>>, <<>>}}

JavaTokens ==
    {Tok("KEYWORD", <<"p", "u", "b", "l", "i", "c">>), Tok("KEYWORD", <<"s", "t", "a", "t", "i", "c">>), Tok("KEYWORD", <<"i", "n", "t">>),
     Tok("IDENTIFIER", NameX), Tok("LPAREN", <<"(">>), Tok("RPAREN", <<")">>),
     Tok("COMMA", <<",">>)}

JavaTokenLists == {tokens \o <<EOFToken>> : tokens \in SeqsUpTo(JavaTokens, MaxTokens)}

NoCall == [name |-> None]

ParsingInit ==
    /\ parsing \in [language : {"python"}, p : {NewParser(tokens) : tokens \in PythonTokenLists},
                    call : {NoCall}]
                   \cup [language : {"java"}, p : {JavaParser(tokens) : tokens \in JavaTokenLists},
                         call : {NoCall}]
    /\ LexIdle /\ SymIdle /\ RunIdle /\ CompatIdle /\ CheckerIdle
    /\ TripIdle /\ EmitterIdle

\* ast = PythonParser(tokens).parse()
PythonParse ==
    /\ parsing.language = "python" /\ parsing.call = NoCall
    /\ LET Called(r) == [parsing EXCEPT !.p = r.p, !.call = [name |-> "parse"]]
       IN  parsing' = Called(parse(parsing.p))
    /\ UNCHANGED <<LexVars, SymVars, RunVars, compat, checker, trip, emitter>>

\* a parse method of the java parser consumes the current token
JavaAdvance ==
    /\ parsing.language = "java" /\ parsing.call = NoCall
    /\ parsing.p.current_token # NoToken
    /\ parsing' = [parsing EXCEPT !.p = java_advance(@)]
    /\ UNCHANGED <<LexVars, SymVars, RunVars, compat, checker, trip, emitter>>

\* self.is_method_declaration()
JavaIsMethod ==
    /\ parsing.language = "java" /\ parsing.call = NoCall
    /\ LET Called(r) == [parsing EXCEPT !.p = r.p,
                            !.call = [name |-> "is_method_declaration",
                                      before |-> parsing.p, result |-> r.result]]
       IN  parsing' = Called(is_method_declaration(parsing.p))
    /\ UNCHANGED <<LexVars, SymVars, RunVars, compat, checker, trip, emitter>>

\* parameters = self.parse_typed_parameters()
JavaParameters ==
    /\ parsing.language = "java" /\ parsing.call = NoCall
    /\ LET Called(r) == [parsing EXCEPT !.p = r.p,
                            !.call = [name |-> "parse_typed_parameters"]]
       IN  parsing' = Called(parse_typed_parameters(parsing.p))
    /\ UNCHANGED <<LexVars, SymVars, RunVars, compat, checker, trip, emitter>>

ParsingNext == PythonParse \/ JavaAdvance \/ JavaIsMethod \/ JavaParameters

SpecParsing == ParsingInit /\ [][ParsingNext]_vars

\* C13: parse of the python parser and the parameter loop of the java
\* parser terminate on every token list that ends with EOF: the call
\* returns, or it raises ParseError where an expected token is missing; it
\* never runs on without consuming tokens.
C13_ParseTerminates ==
    parsing.call.name \in {"parse", "parse_typed_parameters"} =>
        /\ parsing.p.status # "diverges"
        /\ parsing.p.status = "raised" => parsing.p.error = "ParseError"

\* C17: is_method_declaration called on a parser that has a current token
\* returns, true or false, with the position and the current token of the
\* parser as they were before the call: it consumes no token.
C17_LookaheadRestored ==
    (/\ parsing.call.name = "is_method_declaration"
     /\ parsing.call.before.current_token # NoToken) =>
        /\ parsing.p.status = "ok"
        /\ parsing.p.position = parsing.call.before.position
        /\ parsing.p.current_token = parsing.call.before.current_token
        /\ parsing.p.tokens = parsing.call.before.tokens

\* C17 witness: a call made after a token was consumed looked past a
\* type and a name, found the parenthesis and returned true.
C17_Witness ==
    /\ parsing.call.name = "is_method_declaration"
    /\ parsing.p.status = "ok"
    /\ parsing.call.result
    /\ parsing.call.before.position > 0
    /\ parsing.call.before.current_token.type = "KEYWORD"

\* The AST a python text parses to.
AstOfText(text) == parse(NewParser(tokenize(NewLexer(text), "python").tokens)).node

\* C6: a python program of the supported subset that parses and passes the
\* checker is lowered and emitted, and the emitted text parses to the AST
\* of the original: the same statements, and in every expression the same
\* tree, operators and grouping of operands.
C6_RoundTrip ==
    /\ (trip.pass = 1 /\ trip.pc \in {"ir_gen", "generator", "returned"}) => trip.error = None
    /\ (trip.pass = 2 /\ Len(trip.asts) = 2) => trip.asts[2] = trip.asts[1]

\* C7: the text of a successful python to python translation translates
\* again, and the second output has the structure of the first: the first
\* output is a fixed point, also when it ends with the lines that run main.
C7_FixedPoint ==
    /\ trip.pass = 2 => trip.error = None
    /\ Len(trip.outputs) = 2 => AstOfText(trip.outputs[2]) = AstOfText(trip.outputs[1])

(***************************************************************************)
(* The checker on expressions: a checker of each language on which         *)
(* variables of each type of the language are declared, a function with an *)
(* unannotated parameter may be entered, and then one binary or unary      *)
(* operation over literals and names is visited and then lowered.  `last`  *)
(* keeps the node visited, the checker before the visit, the type the      *)
(* visit returned and the IR node of the expression.                       *)
(***************************************************************************)
MaxDecls == 2       \* most declarations made before the expression is visited

StringTypeOf(lang) ==
    CASE lang = "python" -> "str" [] lang = "java" -> "String" [] OTHER -> "string"

VariantTypes(lang) ==
    {"int", StringTypeOf(lang)}
        \cup (CASE lang = "python" -> {"float", "bool"}
                [] lang = "java" -> {"double", "boolean"}
                [] OTHER -> {"double", "float", "bool"})

TypingNames == {NameX, NameN}

ArithmeticOperators == {"+", "-", "*", "/", "%", "//", "**"}

TypingLiterals ==
    {One, Literal(<<"1", ".", "5">>, "float"), Literal(<<"s">>, "string"),
     Literal(<<"T", "r", "u", "e">>, "bool")}

TypingAtoms == TypingLiterals \cup {Identifier(name) : name \in TypingNames \cup {NameA}}

TypingBinaryOps ==
    {BinaryOp(l, op, r) : l \in TypingAtoms, op \in ArithmeticOperators \cup {"<", "and"},
                          r \in TypingAtoms}

TypingUnaryOps == {UnaryOp(op, e) : op \in {"-", "+", "not"}, e \in TypingAtoms}

NoVisit == [node |-> NoNode, before |-> None, type |-> None, ir |-> NoNode]

TypingInit ==
    /\ checker \in [tc : {TypeChecker(lang) : lang \in Languages}, decls : {0},
                    last : {NoVisit}]
    /\ LexIdle /\ SymIdle /\ RunIdle /\ CompatIdle /\ PipeIdle

\* The state after self.visit(node) of an expression by the checker, and
\* the IR node the IR generator of the same language lowers it to.
VisitedExpression(r, node) ==
    [checker EXCEPT !.tc = r.tc,
                    !.last = [node |-> node, before |-> checker.tc, type |-> r.type,
                              ir |-> ir_visit(IRGenerator(checker.tc.language), node).node]]

\* visit_variabledecl of a declaration with a type of the language
TypingDeclare ==
    \E name \in TypingNames, var_type \in VariantTypes(checker.tc.language) :
        /\ checker.last = NoVisit
        /\ checker.decls < MaxDecls
        /\ checker' = [checker EXCEPT
                          !.tc = visit(@, VariableDecl(name, var_type, NoNode)).tc,
                          !.decls = @ + 1]
        /\ UNCHANGED <<LexVars, SymVars, RunVars, compat, PipeVars>>

\* visit_functiondef of def g(a), up to the start of its body
TypingEnter ==
    /\ checker.last = NoVisit
    /\ checker.tc.language = "python"
    /\ checker.tc.current_function = NoSymbol
    /\ checker' = [checker EXCEPT
                      !.tc = FunctionEntered(@, FunctionDef(NameG, Untyped(<<NameA>>),
                                                            None, <<>>))]
    /\ UNCHANGED <<LexVars, SymVars, RunVars, compat, PipeVars>>

\* visit_binaryop of the checker, then visit_binaryop of the IR generator
TypingBinary ==
    \E node \in TypingBinaryOps :
        /\ checker.last = NoVisit
        /\ checker' = VisitedExpression(visit(checker.tc, node), node)
        /\ UNCHANGED <<LexVars, SymVars, RunVars, compat, PipeVars>>

\* visit_unaryop of the checker, then visit_unaryop of the IR generator
TypingUnary ==
    \E node \in TypingUnaryOps :
        /\ checker.last = NoVisit
        /\ checker' = VisitedExpression(visit(checker.tc, node), node)
        /\ UNCHANGED <<LexVars, SymVars, RunVars, compat, PipeVars>>

TypingNext == TypingDeclare \/ TypingEnter \/ TypingBinary \/ TypingUnary

SpecTyping == TypingInit /\ [][TypingNext]_vars

\* The type an operand has by its form: the kind of a literal, the declared
\* type of a name, None for a name of unknown type, "undefined" for a name
\* that is not visible.
OperandType(c, operand) ==
    IF operand.node_type = "Literal" THEN operand.literal_type
    ELSE IF lookup(c.symbol_table, operand.name, FALSE) = NoSymbol THEN "undefined"
    ELSE lookup(c.symbol_table, operand.name, FALSE).symbol_type

KnownType(type) == type \notin {None, "undefined"}
IsNumeric(type) == type \in {"int", "float", "double"}
IsString(c, type) == type \in {"string", "str", StringTypeOf(c.language)}

\* C21: an arithmetic operation over two operands of known type returns
\* float when both are numeric and one is float or double, int when both
\* are numeric and none is, the string type for + over two strings (string
\* literals or variables declared with the string type of the language),
\* each without an error; every other combination records one error.
C21_ArithmeticTypes ==
    LET s == checker.last
        c == s.before
        left == OperandType(c, s.node.left)
        right == OperandType(c, s.node.right)
        added == Len(checker.tc.errors) - Len(c.errors)
    IN  (/\ s.node.node_type = "BinaryOp"
         /\ s.node.operator \in ArithmeticOperators
         /\ KnownType(left) /\ KnownType(right)) =>
            IF IsNumeric(left) /\ IsNumeric(right)
            THEN /\ added = 0
                 /\ s.type = IF {"float", "double"} \cap {left, right} # {}
                             THEN "float" ELSE "int"
            ELSE IF s.node.operator = "+" /\ IsString(c, left) /\ IsString(c, right)
            THEN added = 0 /\ IsString(c, s.type)
            ELSE added = 1

\* C30: an operand of unknown type is treated alike by unary and binary
\* arithmetic: unary + or - over it records no error and returns no type,
\* as binary arithmetic with such an operand records no error; unary + or -
\* records an error only for an operand of a known type that is not numeric.
C30_UnknownOperand ==
    LET s == checker.last
        c == s.before
        added == Len(checker.tc.errors) - Len(c.errors)
    IN  /\ (s.node.node_type = "UnaryOp" /\ s.node.operator \in {"-", "+"}) =>
              LET operand == OperandType(c, s.node.operand) IN
              /\ operand = None => (added = 0 /\ s.type = None)
              /\ KnownType(operand) => (added = IF IsNumeric(operand) THEN 0 ELSE 1)
        /\ (s.node.node_type = "BinaryOp" /\ s.node.operator \in ArithmeticOperators) =>
              LET left == OperandType(c, s.node.left)
                  right == OperandType(c, s.node.right)
              IN  (None \in {left, right} /\ "undefined" \notin {left, right}) =>
                      (added = 0 /\ s.type = None)

\* C23: for a binary operation over operands whose types both stages know
\* (literals), the type the IR generator attaches is the IR form of the type
\* the checker returns: float, int, string for + over strings, bool for a
\* comparison or a logical operator; and the IR type of an operation with
\* an operand of IR type any is never int.
C23_SameInference ==
    LET s == checker.last IN
    s.node.node_type = "BinaryOp" =>
        /\ (/\ s.node.left.node_type = "Literal" /\ s.node.right.node_type = "Literal"
            /\ s.type # None) => s.ir.ir_type = map_type(s.type)
        /\ (s.node.operator \in ArithmeticOperators /\ "any" \in {s.ir.left.ir_type, s.ir.right.ir_type})
              => s.ir.ir_type # "int"

(***************************************************************************)
(* The checker and the IR generator of one language walking the same       *)
(* statements: each step visits a statement with the checker (step 3 of    *)
(* translate) and lowers it with the IR generator (step 4), each keeping   *)
(* its own record of the names defined.  Function entry and exit are steps *)
(* of their own, so that a statement can be walked inside a function.      *)
(***************************************************************************)
NoLowering == [node |-> NoNode, before |-> None, lowered |-> NoNode]

LoweringInit ==
    /\ checker \in {[tc |-> TypeChecker(lang), g |-> IRGenerator(lang), steps |-> 0,
                     last |-> NoLowering] : lang \in Languages}
    /\ LexIdle /\ SymIdle /\ RunIdle /\ CompatIdle /\ PipeIdle

\* The state after the checker visited the node and the generator lowered it.
Walked(r, node) ==
    [tc |-> visit(checker.tc, node).tc, g |-> r.g, steps |-> checker.steps + 1,
     last |-> [node |-> node, before |-> checker.tc, lowered |-> r.node]]

\* visit_assignment of the checker and of the IR generator
LowerAssign ==
    \E node \in ScopeAssignments :
        /\ checker.steps < MaxSteps
        /\ checker' = Walked(ir_visit(checker.g, node), node)
        /\ UNCHANGED <<LexVars, SymVars, RunVars, compat, PipeVars>>

\* visit_forloop of the checker and of the IR generator
LowerLoop ==
    \E node \in ScopeLoops :
        /\ checker.steps < MaxSteps
        /\ checker' = Walked(ir_visit(checker.g, node), node)
        /\ UNCHANGED <<LexVars, SymVars, RunVars, compat, PipeVars>>

\* visit_functiondef of both, from the definition to the end of the body
LowerFunction ==
    \E node \in ScopeFunctions :
        /\ checker.steps < MaxSteps
        /\ checker' = Walked(ir_visit(checker.g, node), node)
        /\ UNCHANGED <<LexVars, SymVars, RunVars, compat, PipeVars>>

\* visit_functiondef of both, up to the start of the body
LowerEnter ==
    \E node \in ScopeFunctions :
        /\ checker.steps < MaxSteps
        /\ ~is_defined(checker.tc.symbol_table, node.name, TRUE)
        /\ checker' = [tc |-> FunctionEntered(checker.tc, node),
                       g |-> LowerParameters(ir_enter_scope(checker.g), node.parameters, <<>>).g,
                       steps |-> checker.steps + 1, last |-> NoLowering]
        /\ UNCHANGED <<LexVars, SymVars, RunVars, compat, PipeVars>>

\* visit_functiondef of both, from the end of the body
LowerLeave ==
    /\ checker.steps < MaxSteps
    /\ checker.tc.symbol_table.current_scope # 1
    /\ Len(checker.g.scopes) > 1
    /\ checker' = [tc |-> [checker.tc EXCEPT !.symbol_table = exit_scope(@),
                                             !.current_function = NoSymbol],
                   g |-> ir_exit_scope(checker.g),
                   steps |-> checker.steps + 1, last |-> NoLowering]
    /\ UNCHANGED <<LexVars, SymVars, RunVars, compat, PipeVars>>

LoweringNext == LowerAssign \/ LowerLoop \/ LowerFunction \/ LowerEnter \/ LowerLeave

SpecLowering == LoweringInit /\ [][LoweringNext]_vars

\* C24: in a walk the checker accepts, a python assignment is lowered to a
\* variable declaration exactly when the checker found its target not
\* visible (and so defined it), and to an assignment when the target was
\* visible as a parameter, a loop variable or an earlier assignment; under
\* java and C++ every assignment is lowered to an assignment.
C24_FreshExactlyWhenNew ==
    LET s == checker.last IN
    (s.node.node_type = "Assignment" /\ checker.tc.errors = <<>>) =>
        IF checker.tc.language = "python"
        THEN (s.lowered.node_type = "variable")
                <=> (lookup(s.before.symbol_table, s.node.target, FALSE) = NoSymbol)
        ELSE s.lowered.node_type = "assignment"

\* The return statements among the nodes that no function definition
\* encloses: those of the nodes themselves and of the blocks of their if
\* statements and loops.
RECURSIVE ReturnsOutside(_)
ReturnsOutside(nodes) ==
    IF nodes = <<>> THEN 0
    ELSE LET node == Head(nodes)
             here ==
                 CASE node.node_type = "Return" -> 1
                   [] node.node_type = "IfStatement" ->
                         ReturnsOutside(node.then_block) + ReturnsOutside(node.else_block)
                             + ReturnsOutside([k \in 1..Len(node.elif_blocks) |->
                                   IfStatement(One, node.elif_blocks[k][2], <<>>, <<>>)])
                   [] node.node_type \in {"WhileLoop", "ForLoop"} -> ReturnsOutside(node.body)
                   [] OTHER -> 0
         IN  here + ReturnsOutside(Tail(nodes))

OutsideErrors(errors) ==
    Cardinality({k \in 1..Len(errors) :
                    errors[k].message = "Return statement outside of function"})

\* C27: 'Return statement outside of function' is recorded once for each
\* return that no function definition encloses and for no other return: a
\* return in a function body is not flagged, also when it follows a nested
\* function definition in that body.
C27_ReturnInsideNotFlagged ==
    OutsideErrors(checker.tc.errors)
        = ReturnsOutside(SubSeq(checker.ast.statements, 1, checker.next - 1))

(***************************************************************************)
(* The checker on what the python parser makes of member calls, indexing,  *)
(* attributes, list literals and interpolated strings: check on the AST    *)
(* parsed from a text that defines a name and then uses it in one of       *)
(* these forms.                                                            *)
(***************************************************************************)
Receivers == {NameX, NameN, NameA}
Members == {<<"f">>, NameA}
Indexes == {<<"0">>, <<"1">>}

\* <receiver> = 1, then the use
Defining(receiver, use) == receiver \o <<" ", "=", " ", "1">> \o <<"\n">> \o use \o <<"\n">>

MemberCallTexts ==
    {Defining(r, r \o <<".">> \o m \o <<"(">> \o i \o <<")">>) :
        r \in Receivers, m \in Members, i \in Indexes}
IndexTexts == {Defining(r, <<"y", " ", "=", " ">> \o r \o <<"[">> \o i \o <<"]">>) : r \in Receivers, i \in Indexes}
AttributeTexts == {Defining(r, <<"y", " ", "=", " ">> \o r \o <<".">> \o m) : r \in Receivers, m \in Members}
ListTexts == {Defining(r, <<"y", " ", "=", " ", "[">> \o i \o <<"]">>) : r \in Receivers, i \in Indexes}
InterpolatedTexts ==
    {Defining(r, <<"y", " ", "=", " ", "f">> \o <<"\"">> \o before \o <<"{">> \o r \o <<"}", "\"">>) :
        r \in Receivers, before \in {<<>>, <<"a">>}}

SyntheticTexts ==
    MemberCallTexts \cup IndexTexts \cup AttributeTexts \cup ListTexts \cup InterpolatedTexts

SyntheticPrograms == {AstOfText(text) : text \in SyntheticTexts}

SyntheticInit ==
    /\ checker \in [tc : {TypeChecker("python")}, ast : SyntheticPrograms, next : {1},
                    returned : {FALSE}, is_valid : {FALSE}]
    /\ LexIdle /\ SymIdle /\ RunIdle /\ CompatIdle /\ PipeIdle

SpecSynthetic == SyntheticInit /\ [][CheckerNext]_vars

NotDefinedErrors(errors) ==
    {k \in 1..Len(errors) : errors[k].message \in {"Function '{name}' is not defined",
                                                    "Variable '{name}' is not defined"}}

\* C29: the names the python parser makes up do not cause errors: the
\* check of a program that defines a name and then calls a member of it,
\* indexes it, reads an attribute of it, puts it in a list literal or
\* interpolates it in a string records no 'is not defined' error.
C29_SyntheticNamesAccepted == NotDefinedErrors(checker.tc.errors) = {}

(***************************************************************************)
(* codegen/java_generator.py, generate_main and the visits it makes.       *)
(* generate never reaches generate_main, but the method is public and is   *)
(* modelled here as a call of its own on a fresh JavaGenerator.            *)
(***************************************************************************)
JavaGenerator == [target_language |-> "java", indent_level |-> 0, generated_code |-> <<>>]

java_map_type(ir_type) ==
    CASE ir_type = "int" -> <<"i", "n", "t">>
      [] ir_type = "float" -> <<"d", "o", "u", "b", "l", "e">>
      [] ir_type = "string" -> <<"S", "t", "r", "i", "n", "g">>
      [] ir_type = "bool" -> <<"b", "o", "o", "l", "e", "a", "n">>
      [] ir_type = "void" -> <<"v", "o", "i", "d">>
      [] ir_type = "array" -> <<"O", "b", "j", "e", "c", "t", "[", "]">>
      [] ir_type = "object" -> <<"O", "b", "j", "e", "c", "t">>
      [] OTHER -> <<"v", "a", "r">>

\* 'input' in function_name or 'scanner' in function_name, on the node
\* itself, on the nodes of its `body` list and on its `value`; no other
\* child is looked at.  The value of a literal is not a node.
RECURSIVE java_contains_input_call(_)
java_contains_input_call(node) ==
    \/ /\ node.node_type = "call"
       /\ \/ Contains(node.function_name, <<"i", "n", "p", "u", "t">>)
          \/ Contains(node.function_name, <<"s", "c", "a", "n", "n", "e", "r">>)
    \/ /\ node.node_type \in {"function", "while", "for"}
       /\ \E k \in 1..Len(node.body) : java_contains_input_call(node.body[k])
    \/ /\ node.node_type \in {"assignment", "return"}
       /\ node.value # NoNode
       /\ java_contains_input_call(node.value)

java_needs_scanner(statements) ==
    \E k \in 1..Len(statements) : java_contains_input_call(statements[k])

RECURSIVE java_visit(_, _)

\* for statement in nodes: code = self.visit(statement);
\* if code and code.strip(): self.emit(code + ";")
RECURSIVE JavaEmitAll(_, _)
JavaEmitted(r) == IF ~IsBlank(r.code) THEN emit(r.g, r.code \o <<";">>) ELSE r.g
JavaEmitAll(g, nodes) ==
    IF nodes = <<>> THEN g ELSE JavaEmitAll(JavaEmitted(java_visit(g, Head(nodes))), Tail(nodes))

\* [self.visit(arg) for arg in nodes]
RECURSIVE JavaCodeOfAll(_, _, _)
JavaCodeOfAll(g, nodes, codes) ==
    IF nodes = <<>> THEN Generated(g, codes)
    ELSE LET Rest(r) == JavaCodeOfAll(r.g, Tail(nodes), r.code)
         IN  Rest(CppCodeAppend(codes, java_visit(g, Head(nodes))))

\* An indented block between the line that opens it and its closing brace.
JavaBlock(g, nodes) == emit(dedent(JavaEmitAll(indent(g), nodes)), <<"}">>)

java_visit_variable(g, node) ==
    IF node.initial_value # NoNode
    THEN LET Declared(r) == Generated(emit(r.g, java_map_type(node.var_type) \o <<" ">> \o node.name
                                               \o <<" ", "=", " ">> \o r.code \o <<";">>), <<>>)
         IN  Declared(java_visit(g, node.initial_value))
    ELSE Generated(emit(g, java_map_type(node.var_type) \o <<" ">> \o node.name \o <<";">>), <<>>)

java_visit_assignment(g, node) ==
    LET Assigned(r) == Generated(emit(r.g, node.target \o <<" ">> \o TextOf(node.operator)
                                              \o <<" ">> \o r.code \o <<";">>), <<>>)
    IN  Assigned(java_visit(g, node.value))

\* The elif loop of visit_if.
RECURSIVE JavaElifs(_, _)
JavaElifs(g, elif_blocks) ==
    IF elif_blocks = <<>> THEN g
    ELSE LET Opened(r) == emit(r.g, <<"e", "l", "s", "e", " ", "i", "f", " ", "(">> \o r.code \o <<")", " ", "{">>)
         IN  JavaElifs(JavaBlock(Opened(java_visit(g, Head(elif_blocks)[1])), Head(elif_blocks)[2]),
                       Tail(elif_blocks))

java_visit_if(g, node) ==
    LET Opened(r) == emit(r.g, <<"i", "f", " ", "(">> \o r.code \o <<")", " ", "{">>)
        WithElse(g2) == IF node.else_block # <<>>
                        THEN JavaBlock(emit(g2, <<"e", "l", "s", "e", " ", "{">>), node.else_block)
                        ELSE g2
    IN  Generated(WithElse(JavaElifs(JavaBlock(Opened(java_visit(g, node.condition)), node.then_block),
                                     node.elif_blocks)), <<>>)

java_visit_while(g, node) ==
    LET Opened(r) == emit(r.g, <<"w", "h", "i", "l", "e", " ", "(">> \o r.code \o <<")", " ", "{">>)
    IN  Generated(JavaBlock(Opened(java_visit(g, node.condition)), node.body), <<>>)

java_visit_for(g, node) ==
    LET Opened(r) == emit(r.g, <<"f", "o", "r", " ", "(", "O", "b", "j", "e", "c", "t", " ">> \o node.variable \o <<" ", ":", " ">> \o r.code \o <<")", " ", "{">>)
    IN  Generated(JavaBlock(Opened(java_visit(g, node.iterable)), node.body), <<>>)

java_visit_return(g, node) ==
    IF node.value # NoNode
    THEN LET Returned(r) == Generated(emit(r.g, <<"r", "e", "t", "u", "r", "n", " ">> \o r.code \o <<";">>), <<>>)
         IN  Returned(java_visit(g, node.value))
    ELSE Generated(emit(g, <<"r", "e", "t", "u", "r", "n", ";">>), <<>>)

java_func_map ==
    { <<<<"p", "r", "i", "n", "t">>, <<"S", "y", "s", "t", "e", "m", ".", "o", "u", "t", ".", "p", "r", "i", "n", "t", "l", "n">>>>, <<<<"l", "e", "n">>, <<"l", "e", "n", "g", "t", "h">>>>,
      <<<<"i", "n", "p", "u", "t">>, <<"s", "c", "a", "n", "n", "e", "r", ".", "n", "e", "x", "t", "L", "i", "n", "e">>>>, <<<<"r", "e", "a", "d", "_", "i", "n", "p", "u", "t">>, <<"s", "c", "a", "n", "n", "e", "r", ".", "n", "e", "x", "t", "L", "i", "n", "e">>>>,
      <<<<"i", "n", "t">>, <<"I", "n", "t", "e", "g", "e", "r", ".", "p", "a", "r", "s", "e", "I", "n", "t">>>>, <<<<"s", "t", "o", "i">>, <<"I", "n", "t", "e", "g", "e", "r", ".", "p", "a", "r", "s", "e", "I", "n", "t">>>>,
      <<<<"s", "t", "r">>, <<"S", "t", "r", "i", "n", "g", ".", "v", "a", "l", "u", "e", "O", "f">>>>, <<<<"t", "o", "_", "s", "t", "r", "i", "n", "g">>, <<"S", "t", "r", "i", "n", "g", ".", "v", "a", "l", "u", "e", "O", "f">>>>,
      <<<<"f", "l", "o", "a", "t">>, <<"D", "o", "u", "b", "l", "e", ".", "p", "a", "r", "s", "e", "D", "o", "u", "b", "l", "e">>>>, <<<<"s", "t", "o", "f">>, <<"D", "o", "u", "b", "l", "e", ".", "p", "a", "r", "s", "e", "D", "o", "u", "b", "l", "e">>>>,
      <<<<"s", "i", "z", "e">>, <<"l", "e", "n", "g", "t", "h">>>>, <<<<"l", "e", "n", "g", "t", "h">>, <<"l", "e", "n", "g", "t", "h">>>> }

JavaPlainCall(node, r) ==
    LET args == Join(r.code, <<",", " ">>)
        func_name == IF \E m \in java_func_map : m[1] = node.function_name
                     THEN (CHOOSE m \in java_func_map : m[1] = node.function_name)[2]
                     ELSE node.function_name
    IN  IF node.function_name = <<"l", "e", "n">> /\ args # <<>>
        THEN Generated(r.g, args \o <<".", "l", "e", "n", "g", "t", "h", "(", ")">>)
        ELSE IF node.function_name \in {<<"i", "n", "p", "u", "t">>, <<"r", "e", "a", "d", "_", "i", "n", "p", "u", "t">>}
        THEN Generated(r.g, <<"s", "c", "a", "n", "n", "e", "r", ".", "n", "e", "x", "t", "L", "i", "n", "e", "(", ")">>)
        ELSE Generated(r.g, func_name \o <<"(">> \o args \o <<")">>)

java_visit_call(g, node) ==
    IF EndsWith(node.function_name, <<"[", "]">>)
    THEN IF node.arguments # <<>>
         THEN CppIndexed(node, java_visit(g, node.arguments[1]))
         ELSE Generated(g, node.function_name)
    ELSE JavaPlainCall(node, JavaCodeOfAll(g, node.arguments, <<>>))

\* The codes of the operands of a chain of << on cout; cout itself gives
\* none and endl gives "\n" as a string literal.
RECURSIVE java_collect_stream_args(_, _)
java_collect_stream_args(g, node) ==
    IF node.node_type = "binary_op" /\ node.operator = "<<"
    THEN java_collect_stream_args(g, node.left) \o java_collect_stream_args(g, node.right)
    ELSE IF node.node_type = "identifier" /\ node.name = <<"c", "o", "u", "t">> THEN <<>>
    ELSE IF node.node_type = "identifier" /\ node.name = <<"e", "n", "d", "l">> THEN <<<<"\"", "\\", "n", "\"">>>>
    ELSE <<java_visit(g, node).code>>

JavaOperator(operator) ==
    CASE operator = "and" -> <<"&", "&">>
      [] operator = "or" -> <<"|", "|">>
      [] operator = "//" -> <<"/">>
      [] OTHER -> TextOf(operator)

java_visit_binary_op(g, node) ==
    IF node.operator = "<<" /\ is_cout_stream(node)
    THEN LET args == java_collect_stream_args(g, node) IN
         Generated(g, IF args = <<>> THEN <<>>
                      ELSE <<"S", "y", "s", "t", "e", "m", ".", "o", "u", "t", ".", "p", "r", "i", "n", "t", "(">> \o Join(args, <<" ", "+", " ">>) \o <<")">>)
    ELSE LET Joined(l, r) == Generated(r.g, <<"(">> \o l.code \o <<" ">> \o JavaOperator(node.operator)
                                               \o <<" ">> \o r.code \o <<")">>)
             Right(l) == Joined(l, java_visit(l.g, node.right))
         IN  Right(java_visit(g, node.left))

java_visit_unary_op(g, node) ==
    LET Applied(r) == Generated(r.g, (IF node.operator = "not" THEN <<"!">> ELSE TextOf(node.operator))
                                         \o r.code)
    IN  Applied(java_visit(g, node.operand))

java_visit_literal(g, node) ==
    Generated(g,
        CASE node.literal_type = "string" -> <<"\"">> \o EscapeDoubleQuotes(node.value) \o <<"\"">>
          [] node.literal_type = "bool" ->
                IF node.value \notin {<<>>, <<"F", "a", "l", "s", "e">>} THEN <<"t", "r", "u", "e">> ELSE <<"f", "a", "l", "s", "e">>
          [] node.literal_type = "void" -> <<"n", "u", "l", "l">>
          [] node.literal_type = "float" -> FloatText(node.value) \o <<"d">>
          [] OTHER -> node.value)

java_visit(g, node) ==
    CASE node = NoNode -> Generated(g, <<>>)
      [] node.node_type = "variable" -> java_visit_variable(g, node)
      [] node.node_type = "assignment" -> java_visit_assignment(g, node)
      [] node.node_type = "if" -> java_visit_if(g, node)
      [] node.node_type = "while" -> java_visit_while(g, node)
      [] node.node_type = "for" -> java_visit_for(g, node)
      [] node.node_type = "return" -> java_visit_return(g, node)
      [] node.node_type = "call" -> java_visit_call(g, node)
      [] node.node_type = "binary_op" -> java_visit_binary_op(g, node)
      [] node.node_type = "unary_op" -> java_visit_unary_op(g, node)
      [] node.node_type = "literal" -> java_visit_literal(g, node)
      [] node.node_type = "identifier" -> Generated(g, node.name)
      [] OTHER -> Generated(g, <<>>)

ScannerConstruction == <<"j", "a", "v", "a", ".", "u", "t", "i", "l", ".", "S", "c", "a", "n", "n", "e", "r", " ", "s", "c", "a", "n", "n", "e", "r", " ", "=", " ", "n", "e", "w", " ", "j", "a", "v", "a", ".", "u", "t", "i", "l", ".", "S", "c", "a", "n", "n", "e", "r", "(", "S", "y", "s", "t", "e", "m", ".", "i", "n", ")", ";">>
ScannerClose == <<"s", "c", "a", "n", "n", "e", "r", ".", "c", "l", "o", "s", "e", "(", ")", ";">>

java_generate_main(g, statements) ==
    LET needs_scanner == java_needs_scanner(statements)
        g1 == indent(emit(g, <<"p", "u", "b", "l", "i", "c", " ", "s", "t", "a", "t", "i", "c", " ", "v", "o", "i", "d", " ", "m", "a", "i", "n", "(", "S", "t", "r", "i", "n", "g", "[", "]", " ", "a", "r", "g", "s", ")", " ", "{">>))
        g2 == IF needs_scanner THEN emit(g1, ScannerConstruction) ELSE g1
        g3 == JavaEmitAll(g2, statements)
        g4 == IF needs_scanner THEN emit(g3, ScannerClose) ELSE g3
    IN  emit(dedent(g4), <<"}">>)

(***************************************************************************)
(* JavaGenerator().generate_main(statements) on lists of lowered           *)
(* statements, with and without a call of input at some place in them.     *)
(***************************************************************************)
MaxStatements == 2

InputCall == IRCall(<<"i", "n", "p", "u", "t">>, <<>>)
IROne == IRLiteral(<<"1">>, "int")

\* Expressions that read a line, and two that do not.
ReadingExpressions ==
    {InputCall, IRCall(<<"i", "n", "t">>, <<InputCall>>), IRBinaryOp(InputCall, "+", IROne, "any")}
PlainExpressions == {IROne, IRIdentifier(NameX)}
JavaExpressions == ReadingExpressions \cup PlainExpressions

JavaStatements ==
    {IRVariable(NameX, "any", e) : e \in JavaExpressions}
        \cup {IRAssignment(NameX, e, "=") : e \in JavaExpressions}
        \cup {IRCall(print, <<e>>) : e \in JavaExpressions}
        \cup {InputCall}
        \cup {IRIf(c, <<IRAssignment(NameX, e, "=")>>, <<>>, <<>>) :
                 c \in {InputCall, IRIdentifier(NameX)}, e \in {InputCall, IROne}}
        \cup {IRIf(IRIdentifier(NameX), <<>>, <<>>, <<IRAssignment(NameX, InputCall, "=")>>),
              IRIf(IRIdentifier(NameX), <<>>,
                   <<<<IRIdentifier(NameX), <<IRAssignment(NameX, InputCall, "=")>>>>>>, <<>>)}
        \cup {IRWhile(c, <<IRAssignment(NameX, e, "=")>>) :
                 c \in {InputCall, IRIdentifier(NameX)}, e \in {InputCall, IROne}}

JavaMainInit ==
    /\ emitter \in [statements : SeqsUpTo(JavaStatements, MaxStatements) \ {<<>>},
                    g : {JavaGenerator}, pc : {"generate_main"}]
    /\ LexIdle /\ SymIdle /\ RunIdle /\ CompatIdle /\ CheckerIdle
    /\ TripIdle /\ ParsingIdle

\* generator.generate_main(statements)
JavaGenerateMain ==
    /\ emitter.pc = "generate_main"
    /\ emitter' = [emitter EXCEPT !.g = java_generate_main(emitter.g, emitter.statements),
                                  !.pc = "returned"]
    /\ UNCHANGED <<LexVars, SymVars, RunVars, compat, checker, trip, parsing>>

SpecJavaMain == JavaMainInit /\ [][JavaGenerateMain]_vars

\* A call emitted as a read of the line reader occurs in node at any depth.
RECURSIVE ReadsLine(_)
ReadsLineIn(nodes) == \E k \in 1..Len(nodes) : ReadsLine(nodes[k])
ReadsLine(node) ==
    CASE node = NoNode -> FALSE
      [] node.node_type = "call" ->
            \/ node.function_name \in {<<"i", "n", "p", "u", "t">>, <<"r", "e", "a", "d", "_", "i", "n", "p", "u", "t">>}
            \/ Contains(node.function_name, <<"s", "c", "a", "n", "n", "e", "r", ".">>)
            \/ ReadsLineIn(node.arguments)
      [] node.node_type = "variable" -> ReadsLine(node.initial_value)
      [] node.node_type = "assignment" -> ReadsLine(node.value)
      [] node.node_type = "binary_op" -> ReadsLine(node.left) \/ ReadsLine(node.right)
      [] node.node_type = "if" ->
            \/ ReadsLine(node.condition) \/ ReadsLineIn(node.then_block)
            \/ ReadsLineIn(node.else_block)
            \/ \E k \in 1..Len(node.elif_blocks) :
                  ReadsLine(node.elif_blocks[k][1]) \/ ReadsLineIn(node.elif_blocks[k][2])
      [] node.node_type = "while" -> ReadsLine(node.condition) \/ ReadsLineIn(node.body)
      [] OTHER -> FALSE

Indented(line) == <<" ", " ", " ", " ">> \o line

\* C25: when generate_main has returned, if a statement it was given holds
\* at any depth a call emitted as a read of the line reader, or a line of
\* the text refers to the reader, then the construction of the reader is the
\* line after the header of the entry point and its close is the line
\* before the closing brace.
C25_ReaderConstructed ==
    emitter.pc = "returned" =>
        LET code == emitter.g.generated_code IN
        (\/ ReadsLineIn(emitter.statements)
         \/ \E k \in 1..Len(code) : Contains(code[k], <<"s", "c", "a", "n", "n", "e", "r", ".">>))
        => /\ Len(code) >= 4
           /\ code[2] = Indented(ScannerConstruction)
           /\ code[Len(code) - 1] = Indented(ScannerClose)

\* The lowered top-level statements of ast that are neither functions nor
\* classes: the ones generate hands to generate_main.
EntryStatements(ast) ==
    SelectSeq(LoweredStatements(ast), LAMBDA node : node.node_type \notin {"function", "class"})

\* The first line generate_main writes for one statement, as it stands in
\* the text of the class: after a line break and two levels of indentation.
EntryLine(node) ==
    <<"\n">> \o Indented(JavaEmitAll(indent(JavaGenerator), <<node>>).generated_code[1])

\* The least place of text where piece starts, 0 when there is none.
FirstAt(text, piece) ==
    IF Contains(text, piece)
    THEN CHOOSE k \in 1..Len(text) :
            /\ SubSeq(text, k, k + Len(piece) - 1) = piece
            /\ \A j \in 1..(k - 1) : SubSeq(text, j, j + Len(piece) - 1) # piece
    ELSE 0

\* C26: when the translation to java of a program with two or more
\* top-level statements that are neither functions nor classes has ended,
\* it has returned a text, and in that text the line of each such statement
\* stands before the line of every such statement that follows it in the
\* source, a first assignment (lowered to a variable) included.
C26_SourceOrder ==
    (/\ emitter.target = "java" /\ emitter.pc \in {"returned", "raised"}
     /\ Len(EntryStatements(emitter.ast)) >= 2)
    => /\ emitter.pc = "returned"
       /\ \A k, m \in 1..Len(EntryStatements(emitter.ast)) :
            k < m => /\ FirstAt(emitter.output, EntryLine(EntryStatements(emitter.ast)[k])) > 0
                     /\ FirstAt(emitter.output, EntryLine(EntryStatements(emitter.ast)[k]))
                          < FirstAt(emitter.output, EntryLine(EntryStatements(emitter.ast)[m]))

(***************************************************************************)
(* One CppGenerator over a sequence of generate calls and statement        *)
(* visits: the prompt visit_call stores stays on the generator until a     *)
(* visit_variable that sees a marker prints and deletes it.                *)
(***************************************************************************)
MaxVisits == 3

input == <<"i", "n", "p", "u", "t">>
PromptP == IRLiteral(<<"p">>, "string")
PromptQ == IRLiteral(<<"q">>, "string")
Prompts == {PromptP, PromptQ}

\* input(), input("p"), int(input()), int(input("p")) and the like.
StringReads == {IRCall(input, <<>>)} \cup {IRCall(input, <<p>>) : p \in Prompts}
IntReads == {IRCall(<<"i", "n", "t">>, <<r>>) : r \in StringReads}
Reads == StringReads \cup IntReads

CppDeclarations ==
    {IRVariable(NameX, "any", e) :
        e \in Reads \cup {IROne, IRBinaryOp(IRCall(input, <<PromptP>>), "+", IROne, "any")}}
CppAssignments == {IRAssignment(NameX, e, "=") : e \in {IRCall(input, <<PromptP>>), IROne}}
CppExpressions == {IRCall(print, <<e>>) : e \in {IRCall(input, <<PromptP>>), IROne}}

NoEmission == [node |-> NoNode, added |-> <<>>]

CppInputInit ==
    /\ emitter = [g |-> generate_imports(CppGenerator), visits |-> 0, last |-> NoEmission]
    /\ LexIdle /\ SymIdle /\ RunIdle /\ CompatIdle /\ CheckerIdle
    /\ TripIdle /\ ParsingIdle

\* The generator after a visit, with the lines the visit added.
Emission(g, node) ==
    [emitter EXCEPT !.g = g, !.visits = @ + 1,
                    !.last = [node |-> node,
                              added |-> SubSeq(g.generated_code,
                                               Len(emitter.g.generated_code) + 1,
                                               Len(g.generated_code))]]

\* self.visit(node) of a declaration
CppVisitVariable ==
    \E node \in CppDeclarations :
        /\ emitter.visits < MaxVisits
        /\ emitter' = Emission(cpp_visit(emitter.g, node).g, node)
        /\ UNCHANGED <<LexVars, SymVars, RunVars, compat, checker, trip, parsing>>

\* self.visit(node) of an assignment to a name declared before
CppVisitAssignment ==
    \E node \in CppAssignments :
        /\ emitter.visits < MaxVisits
        /\ emitter' = Emission(cpp_visit(emitter.g, node).g, node)
        /\ UNCHANGED <<LexVars, SymVars, RunVars, compat, checker, trip, parsing>>

\* code = self.visit(node); self.emit(code + ";") of a call statement, as
\* the statement loops of visit_function and generate_main run it
CppVisitExpression ==
    \E node \in CppExpressions :
        /\ emitter.visits < MaxVisits
        /\ emitter' = Emission(CppEmitted(cpp_visit(emitter.g, node)), node)
        /\ UNCHANGED <<LexVars, SymVars, RunVars, compat, checker, trip, parsing>>

\* The start of a later generate call on the same generator: the text and
\* the indentation are reset, the stored prompt is not.
CppGenerateAgain ==
    /\ emitter.visits > 0 /\ emitter.last # NoEmission
    /\ emitter' = [emitter EXCEPT
                      !.g = generate_imports([@ EXCEPT !.generated_code = <<>>,
                                                       !.indent_level = 0]),
                      !.last = NoEmission]
    /\ UNCHANGED <<LexVars, SymVars, RunVars, compat, checker, trip, parsing>>

CppInputNext ==
    CppVisitVariable \/ CppVisitAssignment \/ CppVisitExpression \/ CppGenerateAgain

SpecCppInput == CppInputInit /\ [][CppInputNext]_vars

\* The line that prints a prompt.
PromptLine(prompt) == <<"c", "o", "u", "t", " ", "<", "<", " ">> \o cpp_visit(CppGenerator, prompt).code \o <<";">>

\* What a declaration whose initializer is a read call is emitted as: the
\* prompt of that call, if it has one, the declaration and the read.
ReadLines(node) ==
    LET call == IF node.initial_value \in IntReads
                THEN node.initial_value.arguments[1] ELSE node.initial_value
    IN  (IF call.arguments # <<>> THEN <<PromptLine(call.arguments[1])>> ELSE <<>>)
            \o <<cpp_map_type(node.var_type) \o <<" ">> \o node.name \o <<";">>,
                 IF node.initial_value \in IntReads
                 THEN <<"c", "i", "n", " ", ">", ">", " ">> \o node.name \o <<";">>
                 ELSE <<"g", "e", "t", "l", "i", "n", "e", "(", "c", "i", "n", ",", " ">> \o node.name \o <<")", ";">>>>

\* C22: after every visit of a statement by a CppGenerator, no emitted line
\* holds a marker INPUT_INT or INPUT_STRING and no prompt is left stored; a
\* declaration whose initializer is a read call has added the prompt of
\* that call (when it has one), the declaration and the read, in this order
\* and nothing else, and any other statement has added no line that prints
\* a prompt.
C22_PromptOwnDeclaration ==
    emitter.last # NoEmission =>
        /\ \A k \in 1..Len(emitter.g.generated_code) :
              /\ ~Contains(emitter.g.generated_code[k], INPUT_INT)
              /\ ~Contains(emitter.g.generated_code[k], INPUT_STRING)
        /\ emitter.g.current_input_prompt = None
        /\ IF emitter.last.node.node_type = "variable" /\ emitter.last.node.initial_value \in Reads
           THEN emitter.last.added = ReadLines(emitter.last.node)
           ELSE \A k \in 1..Len(emitter.last.added) :
                   emitter.last.added[k] \notin {PromptLine(p) : p \in Prompts}

\* The indent width handle_indentation counts at the start of a line.
WidthOf(line) == CountIndent(NewLexer(line), 0)[2]

\* The lexer stands at the start of a line that holds more than spaces,
\* tabs and a comment.
AtCodeLine(l) ==
    /\ l.status = "running" /\ l.at_line_start /\ current_char(l) # None
    /\ current_char(CountIndent(l, 0)[1]) \notin {None, "\n", "#"}

\* The line before the one the lexer stands at.
PreviousLine(l) == Last(LinesOf(SubSeq(l.source_code, 1, l.pos)))

StrictlyIncreasingFromZero(stack) ==
    /\ stack # <<>> /\ stack[1] = 0
    /\ \A i \in 1..(Len(stack) - 1) : stack[i] < stack[i + 1]

\* C28: each pass of the python lexer's loop that processes the indentation
\* of a line holding code leaves the line's indent width on top of the
\* indent stack and the stack strictly increasing from its bottom entry 0;
\* and when the line before it also holds code and has the same width, the
\* pass emits no INDENT and no DEDENT.
C28_StackTopIsWidth ==
    [][(language = "python" /\ AtCodeLine(lx))
       => /\ Last(lx'.indent_stack) = CountIndent(lx, 0)[2]
          /\ StrictlyIncreasingFromZero(lx'.indent_stack)
          /\ (/\ lx.pos > 0
              /\ ~BlankOrComment(PreviousLine(lx))
              /\ WidthOf(PreviousLine(lx)) = CountIndent(lx, 0)[2])
             => IndentTokens(lx'.tokens) = IndentTokens(lx.tokens)]_vars

====
